---- MODULE Spec2Model ----
(***************************************************************************)
(* A model of the GDP analytics engine, GDPDataProcessor                   *)
(* (src/data_processor.py), of the loader GDPDataLoader                    *)
(* (src/data_loader.py) and of the dispatcher, the year range and the      *)
(* debounce of the dashboard window (src/gdp_dashboard_refactored.py,      *)
(* src/gdp_dashboard.py).                                                  *)
(*                                                                         *)
(* Numbers.  A Python float is modelled as an exact rational               *)
(* [num |-> n, den |-> d] in lowest terms with d > 0, so that the          *)
(* divisions of the code (growth rates, means) are computed and not        *)
(* rounded.  The missing marker is NaN, Python's None is None.             *)
(* np.std is kept symbolically as the square root of the variance.         *)
(*                                                                         *)
(* The processor holds a dataframe df (a sequence of rows in dataset row   *)
(* order) and the list year_columns.  Every method is one action: it       *)
(* records the call in `call` and what the method returns in `ret`.  The   *)
(* series functions take the caller's lists in_values and in_years, the    *)
(* correlation matrix the caller's list in_countries.                      *)
(***************************************************************************)
EXTENDS Integers, Sequences, FiniteSets, TLC

VARIABLES df, year_columns, in_values, in_years, in_countries, in_regions,
          call, ret,
          file_table, loader,
          analysis_type, start_year_var, end_year_var, update_timer, timers,
          log

\* the GDPDataLoader object and the table in the data file
loaderVars == <<file_table, loader>>

\* the GDPDashboard window: its Tk variables, its _update_timer attribute and
\* the callbacks Tk has scheduled
uiVars == <<analysis_type, start_year_var, end_year_var, update_timer, timers>>

\* log is a history variable: what has happened so far, for the properties
\* that speak of earlier calls

vars == <<df, year_columns, in_values, in_years, in_countries, in_regions,
          call, ret, loaderVars, uiVars, log>>

(***************************************************************************)
(* Bounds of the model.                                                    *)
(***************************************************************************)
\* longest series handed to the series functions
MaxLen == 3
\* most rows of a dataset
MaxRows == 3

(***************************************************************************)
(* Values.                                                                 *)
(***************************************************************************)
None == [kind |-> "None"]
NaN == [kind |-> "NaN"]

\* no loader has been constructed: the processor was handed its dataframe
NoLoader ==
    /\ file_table = None
    /\ loader = None

\* no dashboard window exists
NoWindow ==
    /\ analysis_type = None
    /\ start_year_var = None
    /\ end_year_var = None
    /\ update_timer = None
    /\ timers = {}
    /\ log = {}

Abs(x) == IF x < 0 THEN -x ELSE x

RECURSIVE GCD(_, _)
GCD(a, b) == IF b = 0 THEN a ELSE GCD(b, a % b)

\* the float n/d (d # 0)
Rat(n, d) ==
    LET s == IF d < 0 THEN -1 ELSE 1
        g == GCD(Abs(n), Abs(d))
    IN  [num |-> (s * n) \div g, den |-> (s * d) \div g]

F(v) == [num |-> v, den |-> 1]

RatAdd(a, b) == Rat(a.num * b.den + b.num * a.den, a.den * b.den)
RatSub(a, b) == Rat(a.num * b.den - b.num * a.den, a.den * b.den)
RatMul(a, b) == Rat(a.num * b.num, a.den * b.den)
RatDiv(a, b) == Rat(a.num * b.den, a.den * b.num)
RatLt(a, b) == a.num * b.den < b.num * a.den
RatLeq(a, b) == a.num * b.den <= b.num * a.den

\* np.isnan(g)
isnan(g) == g = NaN

\* Python truthiness of a value that is None or a float: `not x`
Falsy(x) == IF x = None THEN TRUE ELSE x.num = 0

\* the GDP values a cell can hold, and the cells (a value or missing)
GdpValues == {F(0), F(1), F(2)}
Cells == GdpValues \cup {NaN}

\* the years a caller can ask for
Years == 2000..2002

\* all sequences over S of length at most n
SeqsUpTo(S, n) == UNION {[1..k -> S] : k \in 0..n}

(***************************************************************************)
(* Python list helpers.                                                    *)
(***************************************************************************)
\* set(s)
Elements(s) == {s[k] : k \in 1..Len(s)}

\* list(filter(lambda g: not np.isnan(g), s))
RECURSIVE FilterNotNaN(_)
FilterNotNaN(s) ==
    IF s = <<>> THEN <<>>
    ELSE (IF ~isnan(Head(s)) THEN <<Head(s)>> ELSE <<>>) \o FilterNotNaN(Tail(s))

\* list(filter(lambda x: x[0] is not None, s))
RECURSIVE FilterRated(_)
FilterRated(s) ==
    IF s = <<>> THEN <<>>
    ELSE (IF Head(s)[1] # None THEN <<Head(s)>> ELSE <<>>) \o FilterRated(Tail(s))

\* reduce(lambda a, b: a if a > b else b, s), s not empty
RECURSIVE ReduceMax(_)
ReduceMax(s) ==
    IF Len(s) = 1 THEN s[1]
    ELSE LET a == ReduceMax(SubSeq(s, 1, Len(s) - 1))
             b == s[Len(s)]
         IN  IF RatLt(b, a) THEN a ELSE b

\* reduce(lambda a, b: a if a < b else b, s), s not empty
RECURSIVE ReduceMin(_)
ReduceMin(s) ==
    IF Len(s) = 1 THEN s[1]
    ELSE LET a == ReduceMin(SubSeq(s, 1, Len(s) - 1))
             b == s[Len(s)]
         IN  IF RatLt(a, b) THEN a ELSE b

\* reduce(lambda a, b: a + b, s), s not empty
RECURSIVE ReduceSum(_)
ReduceSum(s) ==
    IF Len(s) = 1 THEN s[1]
    ELSE RatAdd(ReduceSum(SubSeq(s, 1, Len(s) - 1)), s[Len(s)])

\* sorted(s) for a list of floats
RECURSIVE Sorted(_)
Sorted(s) ==
    IF s = <<>> THEN <<>>
    ELSE LET i == CHOOSE i \in 1..Len(s) :
                      /\ \A j \in 1..Len(s) : RatLeq(s[i], s[j])
                      /\ \A j \in 1..(i - 1) : s[j] # s[i]
         IN  <<s[i]>> \o Sorted(SubSeq(s, 1, i - 1) \o SubSeq(s, i + 1, Len(s)))

(***************************************************************************)
(* calculate_growth_rates                                                  *)
(***************************************************************************)
\* a faulty variant of ZipAdjacent: one pair per element, the last paired with the first
ZipAdjacentWrapped(s) ==
    [i \in 1..Len(s) |-> <<s[i], s[(i % Len(s)) + 1]>>]

\* list(zip(s[:-1], s[1:]))
ZipAdjacent(s) ==
    [i \in 1..(IF Len(s) = 0 THEN 0 ELSE Len(s) - 1) |-> <<s[i], s[i + 1]>>]

\* a faulty variant of GrowthEntry: the rate is tagged with the earlier year of the pair
GrowthEntryTagPrev(value_pair, year_pair) ==
    IF /\ ~isnan(value_pair[1])
       /\ ~isnan(value_pair[2])
       /\ value_pair[1].num # 0
    THEN <<RatMul(RatDiv(RatSub(value_pair[2], value_pair[1]), value_pair[1]),
                  F(100)),
           year_pair[1]>>
    ELSE <<None, year_pair[1]>>

\* the lambda mapped over the pairs: (rate, year) or (None, year)
GrowthEntry(value_pair, year_pair) ==
    IF /\ ~isnan(value_pair[1])
       /\ ~isnan(value_pair[2])
       /\ value_pair[1].num # 0
    THEN <<RatMul(RatDiv(RatSub(value_pair[2], value_pair[1]), value_pair[1]),
                  F(100)),
           year_pair[2]>>
    ELSE <<None, year_pair[2]>>

calculate_growth_rates(gdp_values, years) ==
    LET value_pairs == ZipAdjacent(gdp_values)
        year_pairs == ZipAdjacent(years)
        growth_data ==
            [i \in 1..Len(value_pairs) |-> GrowthEntry(value_pairs[i], year_pairs[i])]
        valid_growth == FilterRated(growth_data)
    IN  [growth_rates |-> [i \in 1..Len(valid_growth) |-> valid_growth[i][1]],
         growth_years |-> [i \in 1..Len(valid_growth) |-> valid_growth[i][2]]]

(***************************************************************************)
(* GDPDashboard._calculate_growth_rates of the legacy dashboard            *)
(* (src/gdp_dashboard.py): the loop over range(1, len(gdp_values)).        *)
(***************************************************************************)
\* a faulty variant of GrowthLoopBody: the rate is tagged with years[i - 1]
GrowthLoopBodyTagPrev(acc, gdp_values, years, i) ==
    IF /\ ~isnan(gdp_values[i])
       /\ ~isnan(gdp_values[i - 1])
       /\ gdp_values[i - 1].num # 0
    THEN LET growth_rate == RatMul(RatDiv(RatSub(gdp_values[i], gdp_values[i - 1]),
                                          gdp_values[i - 1]), F(100))
         IN  [growth_rates |-> Append(acc.growth_rates, growth_rate),
              growth_years |-> Append(acc.growth_years, years[i - 1])]
    ELSE acc

\* one pass of the loop body, for the i-th entry of the series (i >= 2)
GrowthLoopBody(acc, gdp_values, years, i) ==
    IF /\ ~isnan(gdp_values[i])
       /\ ~isnan(gdp_values[i - 1])
       /\ gdp_values[i - 1].num # 0
    THEN LET growth_rate == RatMul(RatDiv(RatSub(gdp_values[i], gdp_values[i - 1]),
                                          gdp_values[i - 1]), F(100))
         IN  [growth_rates |-> Append(acc.growth_rates, growth_rate),
              growth_years |-> Append(acc.growth_years, years[i])]
    ELSE acc

\* the two lists after the passes for the entries 2 .. i
RECURSIVE GrowthLoop(_, _, _)
GrowthLoop(gdp_values, years, i) ==
    IF i < 2 THEN [growth_rates |-> <<>>, growth_years |-> <<>>]
    ELSE GrowthLoopBody(GrowthLoop(gdp_values, years, i - 1), gdp_values, years, i)

_calculate_growth_rates(gdp_values, years) ==
    GrowthLoop(gdp_values, years, Len(gdp_values))

(***************************************************************************)
(* calculate_statistics                                                    *)
(***************************************************************************)
\* np.median(s), s not empty
median(s) ==
    LET t == Sorted(s)
        n == Len(t)
    IN  IF n % 2 = 1 THEN t[(n + 1) \div 2]
        ELSE RatDiv(RatAdd(t[n \div 2], t[(n \div 2) + 1]), F(2))

RECURSIVE SumSqDev(_, _)
SumSqDev(s, m) ==
    IF s = <<>> THEN F(0)
    ELSE RatAdd(RatMul(RatSub(Head(s), m), RatSub(Head(s), m)), SumSqDev(Tail(s), m))

\* np.std(s), s not empty: the population standard deviation (ddof = 0),
\* kept as the square root of the variance
std(s) ==
    LET m == RatDiv(ReduceSum(s), F(Len(s)))
    IN  [sqrt_of |-> RatDiv(SumSqDev(s, m), F(Len(s)))]

\* a faulty variant of calculate_statistics: a series with any missing entry has no data
calculate_statistics_any_missing(gdp_values) ==
    LET valid_gdp == FilterNotNaN(gdp_values)
    IN  IF valid_gdp = <<>> \/ Len(valid_gdp) < Len(gdp_values) THEN None
        ELSE [max |-> ReduceMax(valid_gdp),
              min |-> ReduceMin(valid_gdp),
              mean |-> RatDiv(ReduceSum(valid_gdp), F(Len(valid_gdp))),
              median |-> median(valid_gdp),
              std |-> std(valid_gdp),
              count |-> Len(valid_gdp)]

\* a faulty variant of calculate_statistics: count and mean use the total length
calculate_statistics_total_len(gdp_values) ==
    LET valid_gdp == FilterNotNaN(gdp_values)
    IN  IF valid_gdp = <<>> THEN None
        ELSE [max |-> ReduceMax(valid_gdp),
              min |-> ReduceMin(valid_gdp),
              mean |-> RatDiv(ReduceSum(valid_gdp), F(Len(gdp_values))),
              median |-> median(valid_gdp),
              std |-> std(valid_gdp),
              count |-> Len(gdp_values)]

calculate_statistics(gdp_values) ==
    LET valid_gdp == FilterNotNaN(gdp_values)
    IN  IF valid_gdp = <<>> THEN None
        ELSE [max |-> ReduceMax(valid_gdp),
              min |-> ReduceMin(valid_gdp),
              mean |-> RatDiv(ReduceSum(valid_gdp), F(Len(valid_gdp))),
              median |-> median(valid_gdp),
              std |-> std(valid_gdp),
              count |-> Len(valid_gdp)]

(***************************************************************************)
(* calculate_growth_summary                                                *)
(***************************************************************************)
\* next((g for g in s if not np.isnan(g)), None)
RECURSIVE NextNotNaN(_)
NextNotNaN(s) ==
    IF s = <<>> THEN None
    ELSE IF ~isnan(Head(s)) THEN Head(s) ELSE NextNotNaN(Tail(s))

\* reversed(s)
Reversed(s) == [i \in 1..Len(s) |-> s[Len(s) + 1 - i]]

\* the exception a method raises instead of returning
Raise(e) == [kind |-> "raise", exception |-> e]

\* a faulty variant of GrowthTotal: the ratio is not scaled to a percentage
GrowthTotalUnscaled(first_valid, last_valid) ==
    RatDiv(RatSub(last_valid, first_valid), first_valid)

\* ((last_valid - first_valid) / first_valid) * 100
GrowthTotal(first_valid, last_valid) ==
    RatMul(RatDiv(RatSub(last_valid, first_valid), first_valid), F(100))

\* a faulty variant of HasAnnual: any non-zero span gets an annual average
HasAnnualNonZero(years_spanned) == years_spanned # 0

\* years_spanned > 0
HasAnnual(years_spanned) == years_spanned > 0

calculate_growth_summary(gdp_values, years) ==
    LET first_valid == NextNotNaN(gdp_values)
        last_valid == NextNotNaN(Reversed(gdp_values))
    IN  IF Falsy(first_valid) \/ Falsy(last_valid) \/ first_valid.num = 0 THEN None
        ELSE IF years = <<>> THEN Raise("IndexError")
        ELSE LET total_growth == GrowthTotal(first_valid, last_valid)
                 years_spanned == years[Len(years)] - years[1]
                 result == [total_growth |-> total_growth,
                            first_value |-> first_valid,
                            last_value |-> last_valid]
             IN  IF HasAnnual(years_spanned)
                 THEN result @@ ("avg_annual_growth" :>
                                    RatDiv(total_growth, F(years_spanned)))
                 ELSE result

(***************************************************************************)
(* The dataset.  A row has a country name, a continent and one cell per    *)
(* year column; the position of a row in df is its index label.            *)
(***************************************************************************)
CountryNames == <<"A", "B", "C", "D", "E", "F">>
ContinentNames == <<"Asia", "Europe">>
YearColumns == <<2000, 2001>>
YearColumnSet == {YearColumns[i] : i \in 1..Len(YearColumns)}

Row(i, gdp) == [name |-> CountryNames[i],
                continent |-> ContinentNames[((i - 1) % Len(ContinentNames)) + 1],
                gdp |-> gdp]

\* the cells of a dataset: a positive GDP value or missing
DatasetCells == {F(1), F(2), NaN}

Datasets ==
    UNION {{[i \in 1..k |-> Row(i, g[i])] :
               g \in [1..k -> [YearColumnSet -> DatasetCells]]} : k \in 0..MaxRows}

\* the dataset the processor holds while only the series functions are exercised
ReferenceDataset ==
    <<Row(1, [y \in YearColumnSet |-> F(1)]), Row(2, [y \in YearColumnSet |-> NaN])>>

(***************************************************************************)
(* get_top_countries: DataFrame.nlargest(n, year) of pandas.               *)
(*                                                                         *)
(* pandas selects on the column as a Series (SelectNSeries.compute, with   *)
(* keep = "first"):                                                        *)
(*   - n <= 0 gives the empty frame;                                       *)
(*   - dropped is the column without its missing values, nan_index the     *)
(*     labels of the missing ones, both in row order;                      *)
(*   - n >= len(column): column.sort_values(ascending=False).head(n).      *)
(*     sort_values sorts with its default kind, quicksort, which is not a  *)
(*     stable sort: rows of equal value come out in an order the build     *)
(*     decides; missing values are placed last, in row order;              *)
(*   - otherwise the n largest of dropped, ordered by a stable merge sort  *)
(*     (equal values in row order, the earlier rows kept at the cut-off),  *)
(*     then concat([dropped.iloc[inds], nan_index]).iloc[:n].              *)
(* The frame returned is frame.take(indexer); it is modelled by its index, *)
(* the row positions in the order returned.                                *)
(***************************************************************************)
\* the positions of S in row order
RECURSIVE InRowOrder(_)
InRowOrder(S) ==
    IF S = {} THEN <<>>
    ELSE LET m == CHOOSE x \in S : \A y \in S : x <= y
         IN  <<m>> \o InRowOrder(S \ {m})

\* s[:n]
Take(s, n) == SubSeq(s, 1, IF n < Len(s) THEN n ELSE Len(s))

\* the positions of S by value descending, equal values in row order
\* (argsort(kind="mergesort") of the negated values)
RECURSIVE MergeSortDesc(_, _, _)
MergeSortDesc(frame, S, year) ==
    IF S = {} THEN <<>>
    ELSE LET m == CHOOSE x \in S : \A y \in S :
                      \/ RatLt(frame[y].gdp[year], frame[x].gdp[year])
                      \/ frame[y].gdp[year] = frame[x].gdp[year] /\ x <= y
         IN  <<m>> \o MergeSortDesc(frame, S \ {m}, year)

\* the orders sort_values(ascending=False) can give the positions of S:
\* every arrangement by value descending (quicksort keeps no order among equals)
RECURSIVE QuickSortDesc(_, _, _)
QuickSortDesc(frame, S, year) ==
    IF S = {} THEN {<<>>}
    ELSE UNION {{<<m>> \o t : t \in QuickSortDesc(frame, S \ {m}, year)} :
                m \in {x \in S : \A y \in S :
                           RatLeq(frame[y].gdp[year], frame[x].gdp[year])}}

\* a faulty variant of nlargest: the selection stops one row short
nlargest_short(frame, n, year) ==
    LET dropped == {i \in 1..Len(frame) : ~isnan(frame[i].gdp[year])}
        nan_index == InRowOrder((1..Len(frame)) \ dropped)
    IN  IF n <= 0 THEN {<<>>}
        ELSE IF n >= Len(frame)
        THEN {Take(p \o nan_index, n - 1) : p \in QuickSortDesc(frame, dropped, year)}
        ELSE {Take(Take(MergeSortDesc(frame, dropped, year), n) \o nan_index, n - 1)}

\* the indexers frame.nlargest(n, year) can return
nlargest(frame, n, year) ==
    LET dropped == {i \in 1..Len(frame) : ~isnan(frame[i].gdp[year])}
        nan_index == InRowOrder((1..Len(frame)) \ dropped)
    IN  IF n <= 0 THEN {<<>>}
        ELSE IF n >= Len(frame)
        THEN {Take(p \o nan_index, n) : p \in QuickSortDesc(frame, dropped, year)}
        ELSE {Take(Take(MergeSortDesc(frame, dropped, year), n) \o nan_index, n)}

\* self.df.nlargest(n, year)
get_top_countries(year, n) == nlargest(df, n, year)

(***************************************************************************)
(* The series functions as a state machine: any series and any year list   *)
(* of the same length can be handed to them.                               *)
(***************************************************************************)
SeriesInputs == SeqsUpTo(Cells, MaxLen)
YearLists(n) == [1..n -> Years]

CalculateGrowthRates ==
    /\ call' = [op |-> "calculate_growth_rates"]
    /\ ret' = calculate_growth_rates(in_values, in_years)
    /\ UNCHANGED <<df, year_columns, in_values, in_years, in_countries, in_regions,
                     loaderVars, uiVars, log>>

LegacyCalculateGrowthRates ==
    /\ call' = [op |-> "_calculate_growth_rates"]
    /\ ret' = _calculate_growth_rates(in_values, in_years)
    /\ UNCHANGED <<df, year_columns, in_values, in_years, in_countries, in_regions,
                     loaderVars, uiVars, log>>

CalculateStatistics ==
    /\ call' = [op |-> "calculate_statistics"]
    /\ ret' = calculate_statistics(in_values)
    /\ UNCHANGED <<df, year_columns, in_values, in_years, in_countries, in_regions,
                     loaderVars, uiVars, log>>

CalculateGrowthSummary ==
    /\ call' = [op |-> "calculate_growth_summary"]
    /\ ret' = calculate_growth_summary(in_values, in_years)
    /\ UNCHANGED <<df, year_columns, in_values, in_years, in_countries, in_regions,
                     loaderVars, uiVars, log>>

GetTopCountries ==
    \E year \in YearColumnSet, n \in 1..(Len(df) + 1) :
      \E index \in get_top_countries(year, n) :
        /\ call' = [op |-> "get_top_countries", year |-> year, n |-> n]
        /\ ret' = [kind |-> "DataFrame", index |-> index]
        /\ UNCHANGED <<df, year_columns, in_values, in_years, in_countries, in_regions,
                     loaderVars, uiVars, log>>

(***************************************************************************)
(* Spec: a processor constructed over any dataset, its dataset methods     *)
(* called in any order.  SeriesSpec: the series functions called with any  *)
(* series and any year list of the same length.                            *)
(***************************************************************************)
Init ==
    /\ df \in Datasets
    /\ year_columns = YearColumns
    /\ in_values = <<>>
    /\ in_years = <<>>
    /\ in_countries = <<>>
    /\ in_regions = <<>>
    /\ NoLoader
    /\ NoWindow
    /\ call = [op |-> "__init__"]
    /\ ret = None

Next == GetTopCountries

Spec == Init /\ [][Next]_vars

SeriesInit ==
    /\ df = ReferenceDataset
    /\ year_columns = YearColumns
    /\ in_values \in SeriesInputs
    /\ in_years \in YearLists(Len(in_values))
    /\ in_countries = <<>>
    /\ in_regions = <<>>
    /\ NoLoader
    /\ NoWindow
    /\ call = [op |-> "__init__"]
    /\ ret = None

SeriesNext ==
    \/ CalculateGrowthRates
    \/ LegacyCalculateGrowthRates
    \/ CalculateStatistics
    \/ CalculateGrowthSummary

SeriesSpec == SeriesInit /\ [][SeriesNext]_vars

(***************************************************************************)
(* pandas reductions of a column (a sequence of cells).  They skip the     *)
(* missing cells (skipna=True): sum of nothing is 0, mean, median, max and *)
(* min of nothing are NaN; Series.std is the sample standard deviation     *)
(* (ddof = 1), NaN for fewer than two values.                              *)
(***************************************************************************)
\* frame[year]
Column(frame, year) == [i \in 1..Len(frame) |-> frame[i].gdp[year]]

\* Series.dropna()
dropna(col) == FilterNotNaN(col)

\* Series.sum()
PdSum(col) ==
    LET v == FilterNotNaN(col) IN IF v = <<>> THEN F(0) ELSE ReduceSum(v)

\* a faulty variant of PdMean: the missing cells count in the denominator
PdMeanOverAllRows(col) ==
    LET v == FilterNotNaN(col)
    IN  IF v = <<>> THEN NaN ELSE RatDiv(ReduceSum(v), F(Len(col)))

\* Series.mean()
PdMean(col) ==
    LET v == FilterNotNaN(col)
    IN  IF v = <<>> THEN NaN ELSE RatDiv(ReduceSum(v), F(Len(v)))

\* Series.median()
PdMedian(col) ==
    LET v == FilterNotNaN(col) IN IF v = <<>> THEN NaN ELSE median(v)

\* Series.std(): ddof = 1, kept as the square root of the sample variance
PdStd(col) ==
    LET v == FilterNotNaN(col)
    IN  IF Len(v) < 2 THEN NaN
        ELSE LET m == RatDiv(ReduceSum(v), F(Len(v)))
             IN  [sqrt_of |-> RatDiv(SumSqDev(v, m), F(Len(v) - 1))]

\* Series.max()
PdMax(col) ==
    LET v == FilterNotNaN(col) IN IF v = <<>> THEN NaN ELSE ReduceMax(v)

\* Series.min()
PdMin(col) ==
    LET v == FilterNotNaN(col) IN IF v = <<>> THEN NaN ELSE ReduceMin(v)

(***************************************************************************)
(* get_continent_data, get_continent_summary, get_world_statistics         *)
(***************************************************************************)
\* self.df[self.df['Continent'] == continent]: the row positions kept
get_continent_data(continent) ==
    InRowOrder({i \in 1..Len(df) : df[i].continent = continent})

\* the rows of df at the positions pos, as a frame
Frame(pos) == [k \in 1..Len(pos) |-> df[pos[k]]]

\* a faulty variant of get_continent_summary: a continent with no value for
\* the year has no data
get_continent_summary_none_if_missing(continent, year) ==
    LET pos == get_continent_data(continent)
        continent_data == Frame(pos)
    IN  IF FilterNotNaN(Column(continent_data, year)) = <<>> THEN {None}
        ELSE {[total_gdp |-> PdSum(Column(continent_data, year)),
               avg_gdp |-> PdMean(Column(continent_data, year)),
               country_count |-> Len(continent_data),
               top_countries |-> [k \in 1..Len(top) |-> pos[top[k]]]] :
                  top \in nlargest(continent_data, 5, year)}

\* the results get_continent_summary can return (nlargest decides the order
\* of equal rows in top_countries)
get_continent_summary(continent, year) ==
    LET pos == get_continent_data(continent)
        continent_data == Frame(pos)
    IN  IF continent_data = <<>> THEN {None}
        ELSE {[total_gdp |-> PdSum(Column(continent_data, year)),
               avg_gdp |-> PdMean(Column(continent_data, year)),
               country_count |-> Len(continent_data),
               top_countries |-> [k \in 1..Len(top) |-> pos[top[k]]]] :
                  top \in nlargest(continent_data, 5, year)}

\* a faulty variant of get_world_statistics: the countries are counted before
\* the missing values are dropped
get_world_statistics_count_rows(year) ==
    LET year_data == dropna(Column(df, year))
    IN  [total_gdp |-> PdSum(year_data),
         avg_gdp |-> PdMean(year_data),
         median_gdp |-> PdMedian(year_data),
         std_gdp |-> PdStd(year_data),
         max_gdp |-> PdMax(year_data),
         min_gdp |-> PdMin(year_data),
         country_count |-> Len(df)]

get_world_statistics(year) ==
    LET year_data == dropna(Column(df, year))
    IN  [total_gdp |-> PdSum(year_data),
         avg_gdp |-> PdMean(year_data),
         median_gdp |-> PdMedian(year_data),
         std_gdp |-> PdStd(year_data),
         max_gdp |-> PdMax(year_data),
         min_gdp |-> PdMin(year_data),
         country_count |-> Len(year_data)]

(***************************************************************************)
(* AggSpec: the aggregate methods over any dataset whose cells are 0, 1 or *)
(* missing, any year column and any continent (Africa has no row).         *)
(***************************************************************************)
AggCells == {F(0), F(1), NaN}

AggDatasets ==
    UNION {{[i \in 1..k |-> Row(i, g[i])] :
               g \in [1..k -> [YearColumnSet -> AggCells]]} : k \in 0..MaxRows}

AskedContinents == {"Asia", "Europe", "Africa"}

GetContinentSummary ==
    \E continent \in AskedContinents, year \in YearColumnSet :
      \E r \in get_continent_summary(continent, year) :
        /\ call' = [op |-> "get_continent_summary",
                    continent |-> continent, year |-> year]
        /\ ret' = r
        /\ UNCHANGED <<df, year_columns, in_values, in_years, in_countries, in_regions,
                     loaderVars, uiVars, log>>

GetWorldStatistics ==
    \E year \in YearColumnSet :
        /\ call' = [op |-> "get_world_statistics", year |-> year]
        /\ ret' = get_world_statistics(year)
        /\ UNCHANGED <<df, year_columns, in_values, in_years, in_countries, in_regions,
                     loaderVars, uiVars, log>>

AggInit ==
    /\ df \in AggDatasets
    /\ year_columns = YearColumns
    /\ in_values = <<>>
    /\ in_years = <<>>
    /\ in_countries = <<>>
    /\ in_regions = <<>>
    /\ NoLoader
    /\ NoWindow
    /\ call = [op |-> "__init__"]
    /\ ret = None

AggNext ==
    \/ GetContinentSummary
    \/ GetWorldStatistics

AggSpec == AggInit /\ [][AggNext]_vars

(***************************************************************************)
(* get_country_data and get_correlation_matrix.                            *)
(*                                                                         *)
(* data_dict is the list of its items <<country, gdp_values>> in insertion *)
(* order.  DataFrame.corr() of pandas (method = "pearson", min_periods =   *)
(* 1) calls nancorr on the columns: for every column xi and every column   *)
(* yi <= xi it runs one pass over the rows where both columns have a       *)
(* value, updating nobs, the two means, the two sums of squared deviations *)
(* and the co-deviation, and then sets result[xi, yi] and result[yi, xi]   *)
(* to covxy / sqrt(ssqdm_x * ssqdm_y), or to NaN when nobs < 1 or the      *)
(* divisor is 0.  A coefficient r is kept as its sign and its square.      *)
(***************************************************************************)
\* country_data[years].values.flatten() for the rows at pos
RECURSIVE FlattenRows(_, _)
FlattenRows(pos, years) ==
    IF pos = <<>> THEN <<>>
    ELSE [k \in 1..Len(years) |-> df[Head(pos)].gdp[years[k]]]
             \o FlattenRows(Tail(pos), years)

\* a faulty variant of get_country_data: an unknown country has a series of missing values
get_country_data_unknown_as_missing(country, years) ==
    LET country_data == InRowOrder({i \in 1..Len(df) : df[i].name = country})
    IN  IF country_data = <<>> THEN [k \in 1..Len(years) |-> NaN]
        ELSE FlattenRows(country_data, years)

get_country_data(country, years) ==
    LET country_data == InRowOrder({i \in 1..Len(df) : df[i].name = country})
    IN  IF country_data = <<>> THEN None
        ELSE FlattenRows(country_data, years)

\* d[key] = value
DictSet(d, key, value) ==
    IF \E k \in 1..Len(d) : d[k][1] = key
    THEN [k \in 1..Len(d) |-> IF d[k][1] = key THEN <<key, value>> ELSE d[k]]
    ELSE Append(d, <<key, value>>)

\* data_dict after the loop over countries
RECURSIVE BuildDataDict(_, _)
BuildDataDict(countries, years) ==
    IF countries = <<>> THEN <<>>
    ELSE LET data_dict == BuildDataDict(SubSeq(countries, 1, Len(countries) - 1), years)
             country == countries[Len(countries)]
             gdp_values == get_country_data(country, years)
         IN  IF gdp_values # None THEN DictSet(data_dict, country, gdp_values)
             ELSE data_dict

Sign(x) == IF x > 0 THEN 1 ELSE IF x < 0 THEN -1 ELSE 0

\* the float covxy / sqrt(divisor_sq), divisor_sq > 0
Coefficient(covxy, divisor_sq) ==
    [sign |-> Sign(covxy.num), sq |-> RatDiv(RatMul(covxy, covxy), divisor_sq)]

\* a faulty variant of PairMask: only the rows where every column has a value
PairMaskCompleteRows(data, xi, yi) ==
    InRowOrder({i \in 1..Len(data[xi][2]) :
                    \A c \in 1..Len(data) : data[c][2][i] # NaN})

\* the rows where the columns xi and yi both have a value
PairMask(data, xi, yi) ==
    InRowOrder({i \in 1..Len(data[xi][2]) :
                    data[xi][2][i] # NaN /\ data[yi][2][i] # NaN})

\* one row of the pass of nancorr
NancorrStep(acc, vx, vy) ==
    LET nobs == acc.nobs + 1
        dx == RatSub(vx, acc.meanx)
        dy == RatSub(vy, acc.meany)
        meanx == RatAdd(acc.meanx, RatDiv(dx, F(nobs)))
        meany == RatAdd(acc.meany, RatDiv(dy, F(nobs)))
    IN  [nobs |-> nobs, meanx |-> meanx, meany |-> meany,
         ssqdm_x |-> RatAdd(acc.ssqdm_x, RatMul(RatSub(vx, meanx), dx)),
         ssqdm_y |-> RatAdd(acc.ssqdm_y, RatMul(RatSub(vy, meany), dy)),
         covxy |-> RatAdd(acc.covxy, RatMul(RatSub(vx, meanx), dy))]

RECURSIVE NancorrPass(_, _, _)
NancorrPass(x, y, rows) ==
    IF rows = <<>>
    THEN [nobs |-> 0, meanx |-> F(0), meany |-> F(0),
          ssqdm_x |-> F(0), ssqdm_y |-> F(0), covxy |-> F(0)]
    ELSE LET i == rows[Len(rows)]
         IN  NancorrStep(NancorrPass(x, y, SubSeq(rows, 1, Len(rows) - 1)), x[i], y[i])

\* the value nancorr stores at [xi, yi] and [yi, xi]
NancorrPair(data, xi, yi) ==
    LET acc == NancorrPass(data[xi][2], data[yi][2], PairMask(data, xi, yi))
        divisor_sq == RatMul(acc.ssqdm_x, acc.ssqdm_y)
    IN  IF acc.nobs < 1 THEN NaN
        ELSE IF divisor_sq.num # 0 THEN Coefficient(acc.covxy, divisor_sq)
        ELSE NaN

\* a faulty variant of corr: only the entries [xi, yi] with yi <= xi are stored
corr_not_mirrored(data) ==
    [columns |-> [k \in 1..Len(data) |-> data[k][1]],
     values |-> [xi \in 1..Len(data) |-> [yi \in 1..Len(data) |->
                    IF yi <= xi THEN NancorrPair(data, xi, yi) ELSE NaN]]]

\* pd.DataFrame(data).corr()
corr(data) ==
    [columns |-> [k \in 1..Len(data) |-> data[k][1]],
     values |-> [xi \in 1..Len(data) |-> [yi \in 1..Len(data) |->
                    IF yi <= xi THEN NancorrPair(data, xi, yi)
                    ELSE NancorrPair(data, yi, xi)]]]

get_correlation_matrix(countries, years) ==
    LET data_dict == BuildDataDict(countries, years)
    IN  IF data_dict = <<>> THEN None
        ELSE corr(data_dict)

(***************************************************************************)
(* get_top_correlations.                                                   *)
(*                                                                         *)
(* sorted(correlations, key=..., reverse=True) of CPython: the list is     *)
(* reversed, sorted ascending by list.sort and reversed again.  For fewer  *)
(* than 64 items list.sort finds the run the list starts with (count_run,  *)
(* a strictly descending run is reversed in place) and inserts the items   *)
(* after it one by one by binary search (binarysort).  The only comparison *)
(* made is key < key, which is False whenever one of the keys is NaN.      *)
(***************************************************************************)
\* [(countries[i], countries[j], matrix.iloc[i, j]) for j in range(from, len(countries))]
RECURSIVE RowPairs(_, _, _)
RowPairs(correlation_matrix, i, from) ==
    IF from > Len(correlation_matrix.columns) THEN <<>>
    ELSE <<<<correlation_matrix.columns[i], correlation_matrix.columns[from],
             correlation_matrix.values[i][from]>>>>
             \o RowPairs(correlation_matrix, i, from + 1)

\* the list comprehension, from row i on
RECURSIVE Correlations(_, _)
Correlations(correlation_matrix, i) ==
    IF i > Len(correlation_matrix.columns) THEN <<>>
    ELSE RowPairs(correlation_matrix, i, i + 1)
             \o Correlations(correlation_matrix, i + 1)

\* key=lambda x: abs(x[2])
SortKey(x) ==
    IF x[3] = NaN THEN NaN
    ELSE [sign |-> Abs(x[3].sign), sq |-> x[3].sq]

\* a < b for two keys
KeyLt(a, b) == a # NaN /\ b # NaN /\ RatLt(a.sq, b.sq)

\* count_run: the length of the run a starts with, from k items on
RECURSIVE RunEnd(_, _, _)
RunEnd(a, k, descending) ==
    IF k < Len(a)
       /\ (IF descending THEN KeyLt(SortKey(a[k + 1]), SortKey(a[k]))
           ELSE ~KeyLt(SortKey(a[k + 1]), SortKey(a[k])))
    THEN RunEnd(a, k + 1, descending)
    ELSE k

count_run(a) ==
    IF Len(a) <= 1 THEN [n |-> Len(a), descending |-> FALSE]
    ELSE LET descending == KeyLt(SortKey(a[2]), SortKey(a[1]))
         IN  [n |-> RunEnd(a, 2, descending), descending |-> descending]

\* binarysort: the place of pivot in a[l .. r - 1]
RECURSIVE BinarySearch(_, _, _, _)
BinarySearch(a, pivot, l, r) ==
    IF l >= r THEN l
    ELSE LET p == l + ((r - l) \div 2)
         IN  IF KeyLt(SortKey(pivot), SortKey(a[p]))
             THEN BinarySearch(a, pivot, l, p)
             ELSE BinarySearch(a, pivot, p + 1, r)

\* binarysort: a[1 .. start] is sorted, the rest is inserted
RECURSIVE binarysort(_, _)
binarysort(a, start) ==
    IF start >= Len(a) THEN a
    ELSE LET pivot == a[start + 1]
             l == BinarySearch(a, pivot, 1, start + 1)
         IN  binarysort(SubSeq(a, 1, l - 1) \o <<pivot>> \o SubSeq(a, l, start)
                            \o SubSeq(a, start + 2, Len(a)),
                        start + 1)

\* sorted(s, key=lambda x: abs(x[2]), reverse=True)
sorted_by_abs_reverse(s) ==
    LET a == Reversed(s)
        run == count_run(a)
        b == IF run.descending
             THEN Reversed(SubSeq(a, 1, run.n)) \o SubSeq(a, run.n + 1, Len(a))
             ELSE a
    IN  Reversed(binarysort(b, run.n))

get_top_correlations(correlation_matrix, n) ==
    LET correlations == Correlations(correlation_matrix, 1)
        sorted_correlations == sorted_by_abs_reverse(correlations)
    IN  Take(sorted_correlations, n)

(***************************************************************************)
(* CorrSpec: get_correlation_matrix over any dataset of up to MaxRows      *)
(* countries with one of the series of CorrSeries over three year columns, *)
(* for any list of requested countries (a name is unknown to the shorter   *)
(* datasets), and get_top_correlations of the matrix returned, for any n.  *)
(***************************************************************************)
CorrYearColumns == <<2000, 2001, 2002>>

CorrSeries ==
    {<<F(0), F(1), F(1)>>, <<F(0), F(2), F(1)>>, <<NaN, F(1), F(2)>>,
     <<F(1), F(1), F(1)>>, <<NaN, NaN, NaN>>}

\* the cells of a row whose series over CorrYearColumns is s
CellsOf(s) ==
    [y \in {CorrYearColumns[k] : k \in 1..Len(CorrYearColumns)} |->
        s[CHOOSE k \in 1..Len(CorrYearColumns) : CorrYearColumns[k] = y]]

CorrDatasets ==
    UNION {{[i \in 1..k |-> Row(i, CellsOf(g[i]))] : g \in [1..k -> CorrSeries]} :
               k \in 0..MaxRows}

RequestedNames == {"A", "B", "C"}

\* the lists of requested countries: any order, with repetitions
Requests == SeqsUpTo(RequestedNames, Cardinality(RequestedNames))

GetCorrelationMatrix ==
    /\ call' = [op |-> "get_correlation_matrix",
                countries |-> in_countries, years |-> in_years]
    /\ ret' = get_correlation_matrix(in_countries, in_years)
    /\ UNCHANGED <<df, year_columns, in_values, in_years, in_countries, in_regions,
                     loaderVars, uiVars, log>>

GetTopCorrelations ==
    /\ call.op = "get_correlation_matrix"
    /\ ret # None
    /\ \E n \in 0..(MaxRows + 1) :
        /\ call' = [op |-> "get_top_correlations",
                    correlation_matrix |-> ret, n |-> n]
        /\ ret' = get_top_correlations(ret, n)
    /\ UNCHANGED <<df, year_columns, in_values, in_years, in_countries, in_regions,
                     loaderVars, uiVars, log>>

CorrInit ==
    /\ df \in CorrDatasets
    /\ year_columns = CorrYearColumns
    /\ in_values = <<>>
    /\ in_years = CorrYearColumns
    /\ in_countries \in Requests
    /\ in_regions = <<>>
    /\ NoLoader
    /\ NoWindow
    /\ call = [op |-> "__init__"]
    /\ ret = None

CorrNext ==
    \/ GetCorrelationMatrix
    \/ GetTopCorrelations

CorrSpec == CorrInit /\ [][CorrNext]_vars

(***************************************************************************)
(* get_year_comparison_data, calculate_total_gdp, calculate_average_gdp    *)
(* and the module-level sums.  A dict is the list of its items             *)
(* <<key, value>> in insertion order; a Series is the list of its values.  *)
(***************************************************************************)
\* a faulty variant of ContinentSums: each continent's entry is the running total so far
RECURSIVE ContinentSumsRunning(_, _)
ContinentSumsRunning(year, continents) ==
    IF continents = <<>> THEN <<>>
    ELSE LET inner == ContinentSumsRunning(year, SubSeq(continents, 1, Len(continents) - 1))
             continent == continents[Len(continents)]
             before == IF inner = <<>> THEN F(0) ELSE inner[Len(inner)][2]
         IN  DictSet(inner, continent,
                     RatAdd(before, PdSum(Column(Frame(get_continent_data(continent)), year))))

\* {continent: self.get_continent_data(continent)[year].sum() for continent in continents}
RECURSIVE ContinentSums(_, _)
ContinentSums(year, continents) ==
    IF continents = <<>> THEN <<>>
    ELSE LET inner == ContinentSums(year, SubSeq(continents, 1, Len(continents) - 1))
             continent == continents[Len(continents)]
         IN  DictSet(inner, continent,
                     PdSum(Column(Frame(get_continent_data(continent)), year)))

RECURSIVE get_year_comparison_data(_, _)
get_year_comparison_data(comparison_years, continents) ==
    IF comparison_years = <<>> THEN <<>>
    ELSE LET data == get_year_comparison_data(
                         SubSeq(comparison_years, 1, Len(comparison_years) - 1), continents)
             year == comparison_years[Len(comparison_years)]
         IN  DictSet(data, year, ContinentSums(year, continents))

\* a faulty variant of calculate_total_gdp: the cells of the first row only
calculate_total_gdp_first_row(data, years) ==
    [k \in 1..Len(years) |-> PdSum(Column(IF data = <<>> THEN data ELSE <<data[1]>>, years[k]))]

\* data[years].sum(): one sum per listed year
calculate_total_gdp(data, years) ==
    [k \in 1..Len(years) |-> PdSum(Column(data, years[k]))]

\* data[years].mean(axis=1): one mean per row
calculate_average_gdp(data, years) ==
    [i \in 1..Len(data) |-> PdMean([k \in 1..Len(years) |-> data[i].gdp[years[k]]])]

\* total + x for floats: a missing operand makes the sum missing
PyAdd(total, x) ==
    IF total = NaN \/ x = NaN THEN NaN ELSE RatAdd(total, x)

\* df[df[region_col] == region]; the dataset has a Continent column
filter_by_region(frame, region) ==
    InRowOrder({i \in 1..Len(frame) : frame[i].continent = region})

\* df[df['Country Name'] == country]
filter_by_country(frame, country) ==
    InRowOrder({i \in 1..Len(frame) : frame[i].name = country})

\* reduce(lambda total, year: total + region_data[year].sum(), year_columns, 0)
RECURSIVE ReduceRegionTotal(_, _)
ReduceRegionTotal(region_data, years) ==
    IF years = <<>> THEN F(0)
    ELSE PyAdd(ReduceRegionTotal(region_data, SubSeq(years, 1, Len(years) - 1)),
               PdSum(Column(region_data, years[Len(years)])))

calculate_regional_sum(frame, region, years) ==
    LET pos == filter_by_region(frame, region)
        region_data == [k \in 1..Len(pos) |-> frame[pos[k]]]
    IN  ReduceRegionTotal(region_data, years)

\* reduce(lambda total, year: total + country_data[year].iloc[0], year_columns, 0)
RECURSIVE ReduceCountryTotal(_, _)
ReduceCountryTotal(country_data, years) ==
    IF years = <<>> THEN F(0)
    ELSE PyAdd(ReduceCountryTotal(country_data, SubSeq(years, 1, Len(years) - 1)),
               country_data[1].gdp[years[Len(years)]])

calculate_country_sum(frame, country, years) ==
    LET pos == filter_by_country(frame, country)
        country_data == [k \in 1..Len(pos) |-> frame[pos[k]]]
    IN  IF country_data = <<>> THEN F(0)
        ELSE ReduceCountryTotal(country_data, years)

(***************************************************************************)
(* SumSpec: the sums over any dataset of up to MaxRows rows with one of    *)
(* the series of SumSeries over the two year columns, for any list of up   *)
(* to two years (repeated or not) and any list of up to two continents     *)
(* (Europe has no row in the datasets of at most one row).                 *)
(***************************************************************************)
SumSeries ==
    {<<F(1), F(2)>>, <<F(2), NaN>>, <<NaN, F(1)>>, <<NaN, NaN>>}

\* the cells of a row whose series over YearColumns is s
SumCellsOf(s) ==
    [y \in YearColumnSet |-> s[CHOOSE k \in 1..Len(YearColumns) : YearColumns[k] = y]]

SumDatasets ==
    UNION {{[i \in 1..k |-> Row(i, SumCellsOf(g[i]))] : g \in [1..k -> SumSeries]} :
               k \in 0..MaxRows}

\* the year lists and continent lists handed in: any order, with repetitions
ComparisonYearLists == SeqsUpTo(YearColumnSet, Len(YearColumns))
RegionLists == SeqsUpTo({ContinentNames[k] : k \in 1..Len(ContinentNames)},
                        Len(ContinentNames))

GetYearComparisonData ==
    /\ call' = [op |-> "get_year_comparison_data",
                comparison_years |-> in_years, continents |-> in_regions]
    /\ ret' = get_year_comparison_data(in_years, in_regions)
    /\ UNCHANGED <<df, year_columns, in_values, in_years, in_countries, in_regions,
                     loaderVars, uiVars, log>>

CalculateTotalGdp ==
    /\ call' = [op |-> "calculate_total_gdp", years |-> in_years]
    /\ ret' = calculate_total_gdp(df, in_years)
    /\ UNCHANGED <<df, year_columns, in_values, in_years, in_countries, in_regions,
                     loaderVars, uiVars, log>>

CalculateAverageGdp ==
    /\ call' = [op |-> "calculate_average_gdp", years |-> in_years]
    /\ ret' = calculate_average_gdp(df, in_years)
    /\ UNCHANGED <<df, year_columns, in_values, in_years, in_countries, in_regions,
                     loaderVars, uiVars, log>>

CalculateRegionalSum ==
    \E region \in {ContinentNames[k] : k \in 1..Len(ContinentNames)} :
        /\ call' = [op |-> "calculate_regional_sum", region |-> region,
                    year_columns |-> in_years]
        /\ ret' = calculate_regional_sum(df, region, in_years)
        /\ UNCHANGED <<df, year_columns, in_values, in_years, in_countries, in_regions,
                         loaderVars, uiVars, log>>

CalculateCountrySum ==
    \E country \in RequestedNames :
        /\ call' = [op |-> "calculate_country_sum", country |-> country,
                    year_columns |-> in_years]
        /\ ret' = calculate_country_sum(df, country, in_years)
        /\ UNCHANGED <<df, year_columns, in_values, in_years, in_countries, in_regions,
                         loaderVars, uiVars, log>>

SumInit ==
    /\ df \in SumDatasets
    /\ year_columns = YearColumns
    /\ in_values = <<>>
    /\ in_years \in ComparisonYearLists
    /\ in_countries = <<>>
    /\ in_regions \in RegionLists
    /\ NoLoader
    /\ NoWindow
    /\ call = [op |-> "__init__"]
    /\ ret = None

SumNext ==
    \/ GetYearComparisonData
    \/ CalculateTotalGdp
    \/ CalculateAverageGdp
    \/ CalculateRegionalSum
    \/ CalculateCountrySum

SumSpec == SumInit /\ [][SumNext]_vars

(***************************************************************************)
(* ProcessorSpec: one processor and one caller; every operation of the     *)
(* processor called in any order on the same dataset and the same caller   *)
(* sequences.  No method of GDPDataProcessor below line 165 stores into    *)
(* self.df, self.year_columns or an argument: each builds new lists, dicts *)
(* and frames, which is what the UNCHANGED of every action states.         *)
(***************************************************************************)
\* a get_country_data that fills the missing cells of the dataset in place
GetCountryDataFillingInPlace ==
    \E country \in RequestedNames :
        /\ call' = [op |-> "get_country_data",
                    country |-> country, years |-> in_years]
        /\ ret' = get_country_data(country, in_years)
        /\ df' = [i \in 1..Len(df) |->
                     [df[i] EXCEPT !.gdp =
                         [y \in DOMAIN df[i].gdp |->
                             IF df[i].gdp[y] = NaN THEN F(0) ELSE df[i].gdp[y]]]]
        /\ UNCHANGED <<year_columns, in_values, in_years, in_countries, in_regions,
                       loaderVars, uiVars, log>>

GetCountryData ==
    \E country \in RequestedNames :
        /\ call' = [op |-> "get_country_data",
                    country |-> country, years |-> in_years]
        /\ ret' = get_country_data(country, in_years)
        /\ UNCHANGED <<df, year_columns, in_values, in_years, in_countries,
                       in_regions, loaderVars, uiVars, log>>

ProcessorDatasets ==
    {ReferenceDataset,
     <<Row(1, [y \in YearColumnSet |-> IF y = YearColumns[1] THEN F(1) ELSE F(2)]),
       Row(2, [y \in YearColumnSet |-> IF y = YearColumns[1] THEN F(2) ELSE F(1)]),
       Row(3, [y \in YearColumnSet |-> IF y = YearColumns[1] THEN NaN ELSE F(2)])>>}

ProcessorSeries == [1..Len(YearColumns) -> {F(1), F(2), NaN}]
ProcessorRequests == {<<>>, <<"A", "B">>, <<"B", "A", "C">>}
ProcessorRegions == {<<>>, <<"Asia", "Europe">>}

ProcessorInit ==
    /\ df \in ProcessorDatasets
    /\ year_columns = YearColumns
    /\ in_values \in ProcessorSeries
    /\ in_years = YearColumns
    /\ in_countries \in ProcessorRequests
    /\ in_regions \in ProcessorRegions
    /\ NoLoader
    /\ NoWindow
    /\ call = [op |-> "__init__"]
    /\ ret = None

ProcessorNext ==
    \/ GetCountryData
    \/ CalculateGrowthRates
    \/ GetTopCountries
    \/ GetCorrelationMatrix
    \/ CalculateStatistics
    \/ CalculateGrowthSummary
    \/ GetContinentSummary
    \/ GetWorldStatistics
    \/ GetYearComparisonData
    \/ GetTopCorrelations

ProcessorSpec == ProcessorInit /\ [][ProcessorNext]_vars

(***************************************************************************)
(* GDPDashboard.get_year_range (src/gdp_dashboard_refactored.py and        *)
(* src/gdp_dashboard.py).  The two Tk variables hold the text of a year;   *)
(* a text is the list of its decimal digits.                               *)
(***************************************************************************)
\* str(n) for n >= 0
RECURSIVE str(_)
str(n) == IF n < 10 THEN <<n>> ELSE Append(str(n \div 10), n % 10)

\* int(text) for a text of digits
RECURSIVE int(_)
int(text) ==
    IF Len(text) = 1 THEN text[1]
    ELSE 10 * int(SubSeq(text, 1, Len(text) - 1)) + text[Len(text)]

\* list(filter(lambda y: start_year <= y <= end_year, columns))
RECURSIVE FilterBetween(_, _, _)
FilterBetween(columns, start_year, end_year) ==
    IF columns = <<>> THEN <<>>
    ELSE (IF start_year <= Head(columns) /\ Head(columns) <= end_year
          THEN <<Head(columns)>> ELSE <<>>)
             \o FilterBetween(Tail(columns), start_year, end_year)

\* a faulty variant of YearRange: the bounds are used as given
YearRangeAsGiven(start_text, end_text) ==
    FilterBetween(year_columns, int(start_text), int(end_text))

\* the body of get_year_range for the texts of the two variables
YearRange(start_text, end_text) ==
    LET start_year == int(start_text)
        end_year == int(end_text)
    IN  IF start_year > end_year
        THEN FilterBetween(year_columns, end_year, start_year)
        ELSE FilterBetween(year_columns, start_year, end_year)

get_year_range == YearRange(start_year_var, end_year_var)

(***************************************************************************)
(* YearRangeSpec: a window over any non-empty ascending list of year       *)
(* columns (the loader sorts them), its two year variables holding the     *)
(* text of any year from one before the first possible year to one after   *)
(* the last (the end year's default comes from the configuration and need  *)
(* not be a dataset year).                                                 *)
(***************************************************************************)
SortedYearLists ==
    {InRowOrder(S) : S \in (SUBSET Years) \ {{}}}

SelectableYears == Years \cup {y - 1 : y \in Years} \cup {y + 1 : y \in Years}

GetYearRange ==
    /\ call' = [op |-> "get_year_range"]
    /\ ret' = get_year_range
    /\ UNCHANGED <<df, year_columns, in_values, in_years, in_countries, in_regions,
                     loaderVars, uiVars, log>>

YearRangeInit ==
    /\ df = ReferenceDataset
    /\ year_columns \in SortedYearLists
    /\ in_values = <<>>
    /\ in_years = <<>>
    /\ in_countries = <<>>
    /\ in_regions = <<>>
    /\ NoLoader
    /\ analysis_type = "country_trend"
    /\ start_year_var \in {str(y) : y \in SelectableYears}
    /\ end_year_var \in {str(y) : y \in SelectableYears}
    /\ update_timer = None
    /\ timers = {}
    /\ log = {}
    /\ call = [op |-> "__init__"]
    /\ ret = None

YearRangeNext == GetYearRange

YearRangeSpec == YearRangeInit /\ [][YearRangeNext]_vars

(***************************************************************************)
(* GDPDataLoader (src/data_loader.py).  The table read from the data file  *)
(* has a set of column labels, a text [str |-> t] or an integer            *)
(* [int |-> n], and rows with a country name and a continent, each a text  *)
(* or missing.  loader is the object: df (None until a file is read),      *)
(* year_columns, countries, continents, and the required_columns of its    *)
(* configuration.  A method gives the object after the call and what the   *)
(* call returns or raises.                                                 *)
(***************************************************************************)
Text(t) == [str |-> t]
IntLabel(n) == [int |-> n]

\* isinstance(col, int)
IsInt(col) == "int" \in DOMAIN col

\* the data file is absent; the file cannot be read (unsupported extension, parse error)
MissingFile == [kind |-> "MissingFile"]
UnreadableFile == [kind |-> "UnreadableFile"]

\* df.empty: no rows or no columns
Empty(table) == table.rows = <<>> \/ table.columns = {}

\* a faulty variant of _validate_data: the year columns are not checked
_validate_data_no_year_check(self) ==
    IF self.df = None \/ Empty(self.df) THEN Raise("ValueError")
    ELSE LET missing_columns ==
                 {col \in Elements(self.required_columns) : col \notin self.df.columns}
         IN  IF missing_columns # {}
             THEN (IF \E col \in self.df.columns : IsInt(col)
                   THEN Raise("TypeError") ELSE Raise("ValueError"))
             ELSE None

\* None, or what _validate_data raises.  The message of the missing-columns
\* error joins df.columns with ', '.join, which raises TypeError for an
\* integer label before the ValueError is built.
_validate_data(self) ==
    IF self.df = None \/ Empty(self.df) THEN Raise("ValueError")
    ELSE LET missing_columns ==
                 {col \in Elements(self.required_columns) : col \notin self.df.columns}
             year_cols == {col \in self.df.columns : IsInt(col)}
         IN  IF missing_columns # {}
             THEN (IF \E col \in self.df.columns : IsInt(col)
                   THEN Raise("TypeError") ELSE Raise("ValueError"))
             ELSE IF year_cols = {} THEN Raise("ValueError")
             ELSE None

\* sorted(unique non-missing texts of a column), texts ordered as in names
RECURSIVE SortedTexts(_, _)
SortedTexts(S, names) ==
    IF names = <<>> THEN <<>>
    ELSE (IF Text(Head(names)) \in S THEN <<Head(names)>> ELSE <<>>)
             \o SortedTexts(S, Tail(names))

\* the object after _extract_metadata and None, or what it raises
_extract_metadata(self) ==
    LET year_columns_ == InRowOrder({col.int : col \in {c \in self.df.columns : IsInt(c)}})
        s1 == [self EXCEPT !.year_columns = year_columns_]
    IN  IF Text("Country Name") \notin self.df.columns
        THEN [self |-> s1, ret |-> Raise("KeyError")]
        ELSE LET countries ==
                     SortedTexts({self.df.rows[i].name : i \in 1..Len(self.df.rows)} \ {NaN},
                                 CountryNames)
                 s2 == [s1 EXCEPT !.countries = countries]
             IN  IF Text("Continent") \notin self.df.columns
                 THEN [self |-> s2, ret |-> Raise("KeyError")]
                 ELSE LET continents ==
                              SortedTexts({self.df.rows[i].continent :
                                              i \in 1..Len(self.df.rows)} \ {NaN},
                                          ContinentNames)
                          s3 == [s2 EXCEPT !.continents = continents]
                      IN  IF countries = <<>> THEN [self |-> s3, ret |-> Raise("ValueError")]
                          ELSE IF continents = <<>>
                          THEN [self |-> s3, ret |-> Raise("ValueError")]
                          ELSE [self |-> s3, ret |-> None]

\* return self
LoaderSelf == [kind |-> "self"]

\* the object after load_data and what it returns or raises
load_data(self, file) ==
    IF file = MissingFile THEN [self |-> self, ret |-> Raise("FileNotFoundError")]
    ELSE IF file = UnreadableFile THEN [self |-> self, ret |-> Raise("Exception")]
    ELSE LET s1 == [self EXCEPT !.df = file]
             invalid == _validate_data(s1)
         IN  IF invalid # None THEN [self |-> s1, ret |-> invalid]
             ELSE LET extracted == _extract_metadata(s1)
                  IN  IF extracted.ret # None THEN extracted
                      ELSE [self |-> extracted.self, ret |-> LoaderSelf]

get_dataframe(self) ==
    IF self.df = None THEN Raise("ValueError") ELSE self.df

(***************************************************************************)
(* LoaderSpec: one loader, whose configuration requires the country and    *)
(* continent columns or the country column alone; the data file is absent, *)
(* unreadable, or holds any table of FileTables at each call of load_data; *)
(* load_data and get_dataframe are called in any order.                    *)
(* log records that a load_data call has completed.                        *)
(***************************************************************************)
ColumnLabels ==
    {Text("Country Name"), Text("Continent"), IntLabel(YearColumns[1]), Text("2000")}

TextCells(names) == {Text(names[1]), NaN}

FileTables ==
    {[columns |-> c, rows |-> r] :
        c \in SUBSET ColumnLabels,
        r \in {<<>>} \cup {<<[name |-> n, continent |-> k]>> :
                              n \in TextCells(CountryNames),
                              k \in TextCells(ContinentNames)}}

Files == {MissingFile, UnreadableFile} \cup FileTables

RequiredColumnLists ==
    {<<Text("Country Name"), Text("Continent")>>, <<Text("Country Name")>>}

\* GDPDataLoader.__init__
NewLoader(required_columns) ==
    [df |-> None, year_columns |-> <<>>, countries |-> <<>>, continents |-> <<>>,
     required_columns |-> required_columns]

\* load_data, the data file being any of Files at the time of the call
LoadData ==
    \E file \in Files :
        LET done == load_data(loader, file)
        IN  /\ file_table' = file
            /\ loader' = done.self
            /\ call' = [op |-> "load_data"]
            /\ ret' = done.ret
            /\ log' = IF done.ret = LoaderSelf THEN log \cup {"load_data completed"}
                      ELSE log
            /\ UNCHANGED <<df, year_columns, in_values, in_years, in_countries,
                             in_regions, uiVars>>

GetDataframe ==
    /\ call' = [op |-> "get_dataframe"]
    /\ ret' = get_dataframe(loader)
    /\ UNCHANGED <<df, year_columns, in_values, in_years, in_countries, in_regions,
                     loaderVars, uiVars, log>>

LoaderInit ==
    /\ df = <<>>
    /\ year_columns = <<>>
    /\ in_values = <<>>
    /\ in_years = <<>>
    /\ in_countries = <<>>
    /\ in_regions = <<>>
    /\ file_table = MissingFile
    /\ loader \in {NewLoader(r) : r \in RequiredColumnLists}
    /\ analysis_type = None
    /\ start_year_var = None
    /\ end_year_var = None
    /\ update_timer = None
    /\ timers = {}
    /\ log = {}
    /\ call = [op |-> "__init__"]
    /\ ret = None

LoaderNext ==
    \/ LoadData
    \/ GetDataframe

LoaderSpec == LoaderInit /\ [][LoaderNext]_vars

(***************************************************************************)
(* GDPDashboard: the analysis dispatcher and the debounce of the selection *)
(* handlers.  Tk runs every handler to its end before it takes the next    *)
(* event, so each handler is one step.  analysis_type is the StringVar of  *)
(* the radio buttons, update_timer is the attribute _update_timer (None    *)
(* while the attribute does not exist yet), timers are the callbacks that  *)
(* root.after has scheduled and that have neither run nor been cancelled.  *)
(***************************************************************************)
\* the longest burst of selection events that is followed before the timer runs
MaxBurst == 3

\* analysis_map of perform_analysis, as the items of the dict
analysis_map ==
    << <<"country_trend", "plot_country_trend">>,
       <<"compare_countries", "plot_compare_countries">>,
       <<"continent_analysis", "plot_continent_analysis">>,
       <<"top_countries", "plot_top_countries">>,
       <<"growth_rate", "plot_growth_rate">>,
       <<"statistics", "show_statistics">>,
       <<"year_comparison", "plot_year_comparison">>,
       <<"correlation", "plot_correlation">>,
       <<"phase1_regional", "plot_phase1_regional_analysis">>,
       <<"phase1_year", "plot_phase1_year_analysis">>,
       <<"phase1_complete", "plot_phase1_complete_analysis">> >>

\* dict.get(key): the value of the key, None when the dict has no such key
DictGet(d, key) ==
    IF \E k \in 1..Len(d) : d[k][1] = key
    THEN [method |-> d[CHOOSE k \in 1..Len(d) : d[k][1] = key][2]]
    ELSE None

\* what a call of an analysis operation can do: return, or raise an exception
OperationOutcomes == {None, Raise("ValueError"), Raise("KeyError")}

\* a dispatcher whose handler catches ValueError only
perform_analysis_catch_value_error(analysis, outcome) ==
    LET analysis_function == DictGet(analysis_map, analysis)
    IN  IF analysis_function = None
        THEN [invoked |-> <<>>, showerror |-> <<>>, propagated |-> None]
        ELSE IF outcome = None
        THEN [invoked |-> <<analysis_function.method>>, showerror |-> <<>>,
              propagated |-> None]
        ELSE IF outcome = Raise("ValueError")
        THEN [invoked |-> <<analysis_function.method>>,
              showerror |-> <<outcome.exception>>, propagated |-> None]
        ELSE [invoked |-> <<analysis_function.method>>, showerror |-> <<>>,
              propagated |-> outcome]

\* perform_analysis: the methods it invoked, the errors it showed in a message
\* box, and the exception that left it (None when it returned)
perform_analysis(analysis, outcome) ==
    LET analysis_function == DictGet(analysis_map, analysis)
    IN  IF analysis_function = None
        THEN [invoked |-> <<>>, showerror |-> <<>>, propagated |-> None]
        ELSE IF outcome = None
        THEN [invoked |-> <<analysis_function.method>>, showerror |-> <<>>,
              propagated |-> None]
        ELSE [invoked |-> <<analysis_function.method>>,
              showerror |-> <<outcome.exception>>, propagated |-> None]

\* show_default_analysis: perform_analysis inside its own try/except Exception
show_default_analysis(analysis, outcome) ==
    LET done == perform_analysis(analysis, outcome)
    IN  [done EXCEPT !.propagated = None]

\* the handle root.after returns: Tk numbers its timers and never hands out a
\* handle that is still held, so the lowest number neither pending nor held
\* stands for the fresh one
TimerId(n) == [after |-> n]

NewTimer ==
    TimerId(CHOOSE n \in 1..(Cardinality(timers) + 2) :
                /\ TimerId(n) \notin {t.id : t \in timers} \cup {update_timer}
                /\ \A m \in 1..(n - 1) :
                       TimerId(m) \in {t.id : t \in timers} \cup {update_timer})

\* root.after_cancel(id): the timer is dropped; nothing happens when it has run
after_cancel(pending, id) == {t \in pending : t.id # id}

\* perform_analysis_delayed without the after_cancel
perform_analysis_delayed_no_cancel ==
    /\ timers' = timers \cup {[id |-> NewTimer, callback |-> "perform_analysis"]}
    /\ update_timer' = NewTimer

\* perform_analysis_delayed: cancel the timer of the previous request, if the
\* attribute exists, and schedule perform_analysis after update_delay_ms
perform_analysis_delayed ==
    LET kept == IF update_timer # None THEN after_cancel(timers, update_timer)
                ELSE timers
    IN  /\ timers' = kept \cup {[id |-> NewTimer, callback |-> "perform_analysis"]}
        /\ update_timer' = NewTimer

\* the values of the analysis radio buttons; the refactored window takes them
\* from its configuration, which may name an analysis the map does not have
RadioValues == {"country_trend", "top_countries", "correlation", "forecast"}

analysis_types_with_country ==
    {"country_trend", "compare_countries", "growth_rate", "statistics",
     "phase1_year", "phase1_complete"}

\* a selection event joins the burst that has been building since the last
\* run of the debounce timer
SelectionEvent(name) ==
    /\ log.burst < MaxBurst
    /\ log' = [log EXCEPT !.burst = @ + 1]
    /\ call' = [op |-> name]
    /\ ret' = None
    /\ UNCHANGED <<df, year_columns, in_values, in_years, in_countries, in_regions,
                   loaderVars, start_year_var, end_year_var>>

\* a radio button is chosen: the variable takes its value, then the command runs
OnAnalysisChange ==
    \E value \in RadioValues :
        /\ analysis_type' = value
        /\ perform_analysis_delayed
        /\ SelectionEvent("on_analysis_change")

OnPrimaryCountryChange ==
    /\ analysis_type' = IF analysis_type \notin analysis_types_with_country
                        THEN "country_trend" ELSE analysis_type
    /\ perform_analysis_delayed
    /\ SelectionEvent("on_primary_country_change")

OnCompareSelectionChange ==
    \E selected \in 0..1 :
        /\ analysis_type' = IF selected >= 1 THEN "compare_countries"
                            ELSE analysis_type
        /\ perform_analysis_delayed
        /\ SelectionEvent("on_compare_selection_change")

OnSelectionChange ==
    /\ analysis_type' = analysis_type
    /\ perform_analysis_delayed
    /\ SelectionEvent("on_selection_change")

\* the Analyze button runs perform_analysis at once
AnalyzeButton ==
    \E outcome \in OperationOutcomes :
        /\ call' = [op |-> "perform_analysis", analysis |-> analysis_type,
                    outcome |-> outcome, origin |-> "button"]
        /\ ret' = perform_analysis(analysis_type, outcome)
        /\ UNCHANGED <<df, year_columns, in_values, in_years, in_countries,
                       in_regions, loaderVars, uiVars, log>>

\* a pending timer expires and Tk runs its callback
TimerExpires ==
    \E t \in timers, outcome \in OperationOutcomes :
        /\ timers' = timers \ {t}
        /\ call' = [op |-> t.callback, analysis |-> analysis_type,
                    outcome |-> outcome, origin |-> "timer"]
        /\ ret' = IF t.callback = "perform_analysis"
                  THEN perform_analysis(analysis_type, outcome)
                  ELSE show_default_analysis(analysis_type, outcome)
        /\ log' = IF t.callback = "perform_analysis"
                  THEN [burst |-> 0, runs |-> log.runs \cup {log.burst}]
                  ELSE log
        /\ UNCHANGED <<df, year_columns, in_values, in_years, in_countries,
                       in_regions, loaderVars, analysis_type, start_year_var,
                       end_year_var, update_timer>>

\* the window after __init__: the first configured analysis is selected and
\* show_default_analysis is scheduled
DashboardInit ==
    /\ df = ReferenceDataset
    /\ year_columns = YearColumns
    /\ in_values = <<>>
    /\ in_years = <<>>
    /\ in_countries = <<>>
    /\ in_regions = <<>>
    /\ call = [op |-> "__init__"]
    /\ ret = None
    /\ NoLoader
    /\ analysis_type \in RadioValues
    /\ start_year_var = str(YearColumns[1])
    /\ end_year_var = str(YearColumns[Len(YearColumns)])
    /\ update_timer = None
    /\ timers = {[id |-> TimerId(1), callback |-> "show_default_analysis"]}
    /\ log = [burst |-> 0, runs |-> {}]

DashboardNext ==
    \/ OnAnalysisChange
    \/ OnPrimaryCountryChange
    \/ OnCompareSelectionChange
    \/ OnSelectionChange
    \/ AnalyzeButton
    \/ TimerExpires

DashboardSpec == DashboardInit /\ [][DashboardNext]_vars

\* the Tk main loop runs every callback whose delay has passed
DashboardFairSpec == DashboardSpec /\ WF_vars(TimerExpires)

(***************************************************************************)
(* What the claims speak of, stated from the inputs alone.                 *)
(***************************************************************************)
\* the positions of the present entries of a series
PresentAt(s) == {i \in 1..Len(s) : s[i] # NaN}

FirstPresent(s) == s[CHOOSE i \in PresentAt(s) : \A j \in PresentAt(s) : i <= j]
LastPresent(s) == s[CHOOSE i \in PresentAt(s) : \A j \in PresentAt(s) : j <= i]

\* the sum of the numerators of the entries at the positions S (inputs are whole)
RECURSIVE SumAt(_, _)
SumAt(s, S) ==
    IF S = {} THEN 0
    ELSE LET i == CHOOSE i \in S : TRUE IN s[i].num + SumAt(s, S \ {i})

\* calculate_growth_summary returned a summary record
SummaryReturned ==
    /\ call.op = "calculate_growth_summary"
    /\ "total_growth" \in DOMAIN ret

\* the rows of df with a value for the year, and the value of a row
RowsWithValue(year) == {i \in 1..Len(df) : df[i].gdp[year] # NaN}

\* the positions of a returned frame
Returned(index) == {index[k] : k \in 1..Len(index)}

(***************************************************************************)
(* C1.  calculate_growth_summary returns None if and only if the series    *)
(* has no present entry or its first present entry is 0; a non-zero first  *)
(* present entry with a last present entry of 0 gives a record.            *)
(* The code also returns None when the last present entry is 0.            *)
(***************************************************************************)
C1_NoDataIffNoFirstOrZeroFirst ==
    call.op = "calculate_growth_summary" =>
        (ret = None <=> \/ PresentAt(in_values) = {}
                        \/ FirstPresent(in_values).num = 0)

(***************************************************************************)
(* C2.  No row whose value for the year is missing appears in the result   *)
(* of get_top_countries(year, n), n >= 1.                                  *)
(* The code appends the missing rows when fewer than n rows have a value.  *)
(***************************************************************************)
C2_NoMissingRowReturned ==
    (call.op = "get_top_countries" /\ call.n >= 1) =>
        \A k \in 1..Len(ret.index) : df[ret.index[k]].gdp[call.year] # NaN

C4_TopReturnsNOrAllAvailable ==
    (call.op = "get_top_countries" /\ call.n >= 1) =>
        /\ ret.kind = "DataFrame"
        /\ Len(ret.index) <= call.n
        /\ Cardinality(Returned(ret.index)) = Len(ret.index)
        /\ Returned(ret.index) \subseteq 1..Len(df)
        /\ Cardinality(RowsWithValue(call.year)) >= call.n
              => Len(ret.index) = call.n
        /\ call.n > Cardinality(RowsWithValue(call.year))
              => RowsWithValue(call.year) \subseteq Returned(ret.index)
        /\ call.n > Len(df) => Returned(ret.index) = 1..Len(df)

C4_Witness ==
    /\ call.op = "get_top_countries"
    /\ Len(df) = 3
    /\ call.n = 4
    /\ Cardinality(RowsWithValue(call.year)) = 2
    /\ Len(ret.index) = 3

(***************************************************************************)
(* C5.  calculate_statistics returns None if and only if every element of  *)
(* the series is missing (the empty series included); otherwise a record   *)
(* with max, min, mean, median, std and count.                             *)
(***************************************************************************)
C5_StatisticsNoDataIffAllMissing ==
    call.op = "calculate_statistics" =>
        /\ ret = None <=> \A i \in 1..Len(in_values) : in_values[i] = NaN
        /\ ret # None =>
              DOMAIN ret = {"max", "min", "mean", "median", "std", "count"}

C5_Witness ==
    /\ call.op = "calculate_statistics"
    /\ Len(in_values) = 3
    /\ in_values[1] = NaN
    /\ in_values[3] = NaN
    /\ ret # None

(***************************************************************************)
(* C6.  With at least one present value, calculate_statistics returns      *)
(* count = the number of present elements, max and min the largest and     *)
(* smallest present element, mean = their sum over count, and              *)
(* max >= mean >= min (max*count >= sum >= min*count).                     *)
(***************************************************************************)
C6_CountMaxMinMean ==
    (call.op = "calculate_statistics" /\ ret # None) =>
        LET P == PresentAt(in_values)
            sum == SumAt(in_values, P)
        IN  /\ ret.count = Cardinality(P)
            /\ \E i \in P : in_values[i] = ret.max
            /\ \E i \in P : in_values[i] = ret.min
            /\ \A i \in P : /\ RatLeq(in_values[i], ret.max)
                             /\ RatLeq(ret.min, in_values[i])
            /\ ret.mean.num * ret.count = sum * ret.mean.den
            /\ RatLeq(ret.mean, ret.max)
            /\ RatLeq(ret.min, ret.mean)
            /\ ret.max.num * ret.count >= sum
            /\ sum >= ret.min.num * ret.count

C6_Witness ==
    /\ call.op = "calculate_statistics"
    /\ Len(in_values) = 3
    /\ Cardinality(PresentAt(in_values)) = 2
    /\ ret # None
    /\ ret.max # ret.min
    /\ ret.count = 2

(***************************************************************************)
(* C7.  calculate_growth_rates over lists of equal length: a rate          *)
(* ((v[i] - v[i-1]) / v[i-1]) * 100 tagged with the year of v[i] is        *)
(* emitted exactly for the adjacent pairs with both values present and     *)
(* v[i-1] # 0; the other pairs leave no placeholder, the two outputs have  *)
(* the same length and the emitted pairs keep the input order.             *)
(* (Positions are 1-based here: the pair at i is (v[i-1], v[i]).)          *)
(***************************************************************************)
C7_RatesExactlyForValidPairs ==
    call.op = "calculate_growth_rates" =>
        LET v == in_values
            Emit == {i \in 2..Len(v) :
                        v[i - 1] # NaN /\ v[i] # NaN /\ v[i - 1].num # 0}
            \* the k-th emitting position, in input order
            At(k) == CHOOSE i \in Emit : Cardinality({j \in Emit : j < i}) = k - 1
        IN  /\ Len(ret.growth_rates) = Cardinality(Emit)
            /\ Len(ret.growth_years) = Len(ret.growth_rates)
            /\ \A k \in 1..Len(ret.growth_rates) :
                  /\ ret.growth_rates[k] # None
                  /\ ret.growth_rates[k].num * v[At(k) - 1].num
                        = ret.growth_rates[k].den
                            * (v[At(k)].num - v[At(k) - 1].num) * 100
                  /\ ret.growth_years[k] = in_years[At(k)]

C7_Witness ==
    /\ call.op = "calculate_growth_rates"
    /\ Len(in_values) = 3
    /\ in_values[1] = F(0)
    /\ in_values[2] = F(1)
    /\ in_values[3] = F(2)
    /\ in_years = <<2000, 2001, 2002>>
    /\ ret.growth_rates = <<F(100)>>
    /\ ret.growth_years = <<2002>>

(***************************************************************************)
(* C8.  As claimed: for every series s, of length 0 and 1 too, the number  *)
(* of rates returned by calculate_growth_rates is at most len(s) - 1.      *)
(* The empty series gives 0 rates, which is more than -1.                  *)
(***************************************************************************)
C8_RatesAtMostLenMinusOne ==
    call.op = "calculate_growth_rates" =>
        Len(ret.growth_rates) <= Len(in_values) - 1

(***************************************************************************)
(* C8, amended.  For every series s of length at least 1 the number of     *)
(* rates is at most len(s) - 1; for the empty series it is 0.              *)
(***************************************************************************)
C8_RatesAtMostLenMinusOneOrZero ==
    call.op = "calculate_growth_rates" =>
        /\ Len(in_values) >= 1 => Len(ret.growth_rates) <= Len(in_values) - 1
        /\ Len(in_values) = 0 => Len(ret.growth_rates) = 0

C8_Witness ==
    /\ call.op = "calculate_growth_rates"
    /\ Len(in_values) = 3
    /\ Len(ret.growth_rates) = 2

(***************************************************************************)
(* C9.  In a record returned by calculate_growth_summary, first_value is   *)
(* the first present entry, last_value the last present entry, and         *)
(* total_growth = (last_value - first_value) / first_value * 100; with     *)
(* exactly one present value total_growth is 0.                            *)
(***************************************************************************)
C9_SummaryFirstLastTotal ==
    SummaryReturned =>
        LET first == FirstPresent(in_values)
            last == LastPresent(in_values)
        IN  /\ PresentAt(in_values) # {}
            /\ ret.first_value = first
            /\ ret.last_value = last
            /\ ret.total_growth.num * first.num
                  = ret.total_growth.den * (last.num - first.num) * 100
            /\ Cardinality(PresentAt(in_values)) = 1 => ret.total_growth = F(0)

C9_Witness ==
    /\ SummaryReturned
    /\ in_values = <<NaN, F(1), F(2)>>
    /\ ret.first_value = F(1)
    /\ ret.last_value = F(2)
    /\ ret.total_growth = F(100)

(***************************************************************************)
(* C10.  In a record returned by calculate_growth_summary, the field       *)
(* avg_annual_growth is present if and only if years[-1] - years[0] > 0,   *)
(* and then equals total_growth / (years[-1] - years[0]), the years being  *)
(* the first and last requested ones, not those of the present values.     *)
(***************************************************************************)
C10_AnnualAverageIffPositiveSpan ==
    SummaryReturned =>
        LET span == in_years[Len(in_years)] - in_years[1]
        IN  /\ "avg_annual_growth" \in DOMAIN ret <=> span > 0
            /\ span > 0 =>
                  ret["avg_annual_growth"].num * span * ret.total_growth.den
                    = ret.total_growth.num * ret["avg_annual_growth"].den

C10_Witness ==
    /\ SummaryReturned
    /\ in_values = <<NaN, F(1), F(2)>>
    /\ in_years = <<2000, 2001, 2002>>
    /\ "avg_annual_growth" \in DOMAIN ret
    /\ ret["avg_annual_growth"] = F(50)

(***************************************************************************)
(* What the aggregate claims speak of.                                     *)
(***************************************************************************)
\* the rows of df of a continent, and those of them with a value for a year
ContinentRows(continent) == {i \in 1..Len(df) : df[i].continent = continent}
ContinentRowsWithValue(continent, year) ==
    {i \in ContinentRows(continent) : df[i].gdp[year] # NaN}

\* the sum of the values of the rows S for a year (cells are whole)
RECURSIVE SumOfRows(_, _)
SumOfRows(S, year) ==
    IF S = {} THEN 0
    ELSE LET i == CHOOSE i \in S : TRUE
         IN  df[i].gdp[year].num + SumOfRows(S \ {i}, year)

\* get_continent_summary returned a summary record
ContinentSummaryReturned ==
    /\ call.op = "get_continent_summary"
    /\ ret # None

(***************************************************************************)
(* C11.  When the selection of an engine operation holds no present value  *)
(* the result is None and no returned record has a NaN field: for          *)
(* calculate_statistics, calculate_growth_summary, get_world_statistics (a *)
(* year with every value missing) and get_continent_summary (a continent   *)
(* whose rows are all missing for the year).                               *)
(* get_world_statistics and get_continent_summary return records with NaN  *)
(* fields there.                                                           *)
(***************************************************************************)
C11_NoPresentValueIsNoData ==
    /\ (call.op = "calculate_statistics" /\ PresentAt(in_values) = {})
          => ret = None
    /\ (call.op = "calculate_growth_summary" /\ PresentAt(in_values) = {})
          => ret = None
    /\ call.op = "get_world_statistics" =>
          /\ RowsWithValue(call.year) = {} => ret = None
          /\ ret # None => \A f \in DOMAIN ret : ret[f] # NaN
    /\ call.op = "get_continent_summary" =>
          /\ ContinentRowsWithValue(call.continent, call.year) = {} => ret = None
          /\ ret # None => ret.total_gdp # NaN /\ ret.avg_gdp # NaN

(***************************************************************************)
(* The correlation matrix, stated from the dataset and the request.        *)
(***************************************************************************)
MatrixReturned == call.op = "get_correlation_matrix" /\ ret # None

\* the requested countries that have a row in the dataset
Existing(countries) ==
    {countries[k] : k \in 1..Len(countries)} \cap {df[i].name : i \in 1..Len(df)}

\* the series of a country of the dataset over years
SeriesOf(country, years) ==
    LET i == CHOOSE i \in 1..Len(df) : df[i].name = country
    IN  [k \in 1..Len(years) |-> df[i].gdp[years[k]]]

\* the year positions where both series have a value
Shared(x, y) == {k \in 1..Len(x) : x[k] # NaN /\ y[k] # NaN}

\* the sum of the products of the numerators at the positions S (inputs are whole)
RECURSIVE SumProdAt(_, _, _)
SumProdAt(x, y, S) ==
    IF S = {} THEN 0
    ELSE LET i == CHOOSE i \in S : TRUE
         IN  x[i].num * y[i].num + SumProdAt(x, y, S \ {i})

\* Pearson's r of x and y over the positions S:
\* (n Sxy - Sx Sy) / sqrt((n Sxx - Sx^2)(n Syy - Sy^2)), undefined when that is 0/0
PearsonOver(x, y, S) ==
    LET n == Cardinality(S)
        c == n * SumProdAt(x, y, S) - SumAt(x, S) * SumAt(y, S)
        dx == n * SumProdAt(x, x, S) - SumAt(x, S) * SumAt(x, S)
        dy == n * SumProdAt(y, y, S) - SumAt(y, S) * SumAt(y, S)
    IN  IF n = 0 \/ dx * dy = 0 THEN NaN
        ELSE [sign |-> Sign(c), sq |-> Rat(c * c, dx * dy)]

\* the coefficient 1.0
One == [sign |-> 1, sq |-> F(1)]

(***************************************************************************)
(* C12.  get_correlation_matrix returns None exactly when no requested     *)
(* country has a row in the dataset; otherwise the matrix has exactly one  *)
(* row and one column per requested country that exists, and none for a    *)
(* requested country that does not.                                        *)
(***************************************************************************)
C12_UnknownCountriesDropped ==
    call.op = "get_correlation_matrix" =>
        LET E == Existing(call.countries)
        IN  /\ ret = None <=> E = {}
            /\ ret # None =>
                 LET k == Len(ret.columns)
                 IN  /\ {ret.columns[c] : c \in 1..k} = E
                     /\ k = Cardinality(E)
                     /\ DOMAIN ret.values = 1..k
                     /\ \A i \in 1..k : DOMAIN ret.values[i] = 1..k

C12_Witness ==
    /\ MatrixReturned
    /\ Len(ret.columns) = 2
    /\ Len(call.countries) = 3
    /\ \E k \in 1..3 : call.countries[k] \notin {df[i].name : i \in 1..Len(df)}

(***************************************************************************)
(* C13.  In every matrix returned by get_correlation_matrix the diagonal   *)
(* entry of every included country is exactly 1.0, whatever its series.    *)
(***************************************************************************)
C13_DiagonalIsOne ==
    MatrixReturned =>
        \A i \in 1..Len(ret.columns) : ret.values[i][i] = One

(***************************************************************************)
(* C14.  Every matrix returned by get_correlation_matrix is symmetric:     *)
(* the entries at [i, j] and [j, i] are the same coefficient or both       *)
(* undefined.                                                              *)
(***************************************************************************)
C14_MatrixSymmetric ==
    MatrixReturned =>
        \A i, j \in 1..Len(ret.columns) : ret.values[i][j] = ret.values[j][i]

C14_Witness ==
    /\ MatrixReturned
    /\ Len(ret.columns) = 3
    /\ \E i, j \in 1..3 : i < j /\ ret.values[j][i] \notin {NaN, One}
    /\ \E i, j \in 1..3 : i < j /\ ret.values[j][i] = NaN

(***************************************************************************)
(* C15.  Every entry of the matrix is Pearson's coefficient of the two     *)
(* countries' series over exactly the year positions where both have a     *)
(* value; a value missing in a third included country removes no position. *)
(***************************************************************************)
C15_PairwiseCompleteObservations ==
    MatrixReturned =>
        \A i, j \in 1..Len(ret.columns) :
            LET x == SeriesOf(ret.columns[i], call.years)
                y == SeriesOf(ret.columns[j], call.years)
            IN  ret.values[i][j] = PearsonOver(x, y, Shared(x, y))

C15_Witness ==
    /\ MatrixReturned
    /\ Len(ret.columns) = 3
    /\ \E i, j, c \in 1..3 :
        LET x == SeriesOf(ret.columns[i], call.years)
            y == SeriesOf(ret.columns[j], call.years)
            z == SeriesOf(ret.columns[c], call.years)
        IN  /\ i # j /\ c \notin {i, j}
            /\ \E k \in Shared(x, y) : z[k] = NaN
            /\ ret.values[i][j] # NaN
            /\ ret.values[i][j] # PearsonOver(x, y, Shared(x, y) \cap Shared(z, z))

(***************************************************************************)
(* C16.  get_top_correlations(matrix, n) over a k-country matrix returns   *)
(* min(n, k (k - 1) / 2) triples, each the entry of an upper-triangle pair *)
(* (i < j), no pair twice, the defined coefficients in non-increasing      *)
(* order of their absolute value and equal absolute values in the          *)
(* row-major order of their pairs.                                         *)
(***************************************************************************)
C16_TopCorrelationsSorted ==
    call.op = "get_top_correlations" =>
        LET m == call.correlation_matrix
            k == Len(m.columns)
            pairs == (k * (k - 1)) \div 2
            I(t) == CHOOSE i \in 1..k : m.columns[i] = t[1]
            J(t) == CHOOSE j \in 1..k : m.columns[j] = t[2]
        IN  /\ Len(ret) = IF call.n < pairs THEN call.n ELSE pairs
            /\ \A p \in 1..Len(ret) :
                /\ I(ret[p]) < J(ret[p])
                /\ ret[p][3] = m.values[I(ret[p])][J(ret[p])]
            /\ \A p, q \in 1..Len(ret) :
                p < q => <<ret[p][1], ret[p][2]>> # <<ret[q][1], ret[q][2]>>
            /\ \A p, q \in 1..Len(ret) :
                (p < q /\ ret[p][3] # NaN /\ ret[q][3] # NaN) =>
                    /\ ~RatLt(ret[p][3].sq, ret[q][3].sq)
                    /\ ret[p][3].sq = ret[q][3].sq =>
                         \/ I(ret[p]) < I(ret[q])
                         \/ I(ret[p]) = I(ret[q]) /\ J(ret[p]) < J(ret[q])

(***************************************************************************)
(* C17.  For every year column with a value, the std returned by           *)
(* get_world_statistics equals the std calculate_statistics returns for    *)
(* the same column; it is 0 when exactly one country has a value.          *)
(* The code takes Series.std (ddof = 1) in one and np.std (ddof = 0) in    *)
(* the other.                                                              *)
(***************************************************************************)
C17_WorldStdIsStatisticsStd ==
    (call.op = "get_world_statistics" /\ RowsWithValue(call.year) # {}) =>
        /\ ret.std_gdp = calculate_statistics(Column(df, call.year)).std
        /\ Cardinality(RowsWithValue(call.year)) = 1
              => ret.std_gdp = [sqrt_of |-> F(0)]

(***************************************************************************)
(* C18.  get_world_statistics(year) returns country_count = the number of  *)
(* countries with a value for the year (not the number of rows), and       *)
(* total, max and min over exactly those values.                           *)
(***************************************************************************)
C18_WorldCountsValuedCountries ==
    call.op = "get_world_statistics" =>
        LET P == RowsWithValue(call.year)
            Val(i) == df[i].gdp[call.year]
        IN  /\ ret.country_count = Cardinality(P)
            /\ ret.total_gdp = F(SumOfRows(P, call.year))
            /\ P # {} =>
                  /\ \E i \in P : Val(i) = ret.max_gdp
                  /\ \E i \in P : Val(i) = ret.min_gdp
                  /\ \A i \in P : /\ RatLeq(Val(i), ret.max_gdp)
                                   /\ RatLeq(ret.min_gdp, Val(i))

C18_Witness ==
    /\ call.op = "get_world_statistics"
    /\ Len(df) = 3
    /\ Cardinality(RowsWithValue(call.year)) = 2
    /\ ret.country_count = 2
    /\ ret.max_gdp = F(1)
    /\ ret.min_gdp = F(0)
    /\ ret.total_gdp = F(1)

(***************************************************************************)
(* C19.  get_continent_summary(continent, year) returns None if and only   *)
(* if no row of the dataset has that continent; a continent whose rows are *)
(* all missing for the year still gets a record.                           *)
(***************************************************************************)
C19_ContinentNoDataIffNoRow ==
    call.op = "get_continent_summary" =>
        (ret = None <=> ContinentRows(call.continent) = {})

C19_Witness ==
    /\ call.op = "get_continent_summary"
    /\ Cardinality(ContinentRows(call.continent)) = 2
    /\ ContinentRowsWithValue(call.continent, call.year) = {}
    /\ ret # None
    /\ ret.country_count = 2

(***************************************************************************)
(* C20.  As claimed: in a record of get_continent_summary total_gdp is the *)
(* sum of the present values of the continent for the year, avg_gdp that   *)
(* sum over the number of present values, and avg_gdp * country_count      *)
(* equals total_gdp only when no row of the continent is missing.          *)
(* Present values that sum to 0 make the two equal with a row missing.     *)
(***************************************************************************)
C20_AvgTimesCountOnlyWhenComplete ==
    ContinentSummaryReturned =>
        LET R == ContinentRows(call.continent)
            P == ContinentRowsWithValue(call.continent, call.year)
            sum == SumOfRows(P, call.year)
        IN  /\ ret.total_gdp = F(sum)
            /\ P # {} => ret.avg_gdp.num * Cardinality(P) = sum * ret.avg_gdp.den
            /\ (/\ ret.avg_gdp # NaN
                /\ ret.avg_gdp.num * ret.country_count
                      = ret.total_gdp.num * ret.avg_gdp.den)
                  => P = R

(***************************************************************************)
(* C20, amended.  total_gdp is the sum of the present values, avg_gdp that *)
(* sum over the number of present values (NaN when there is none), and     *)
(* avg_gdp * country_count equals total_gdp exactly when no row of the     *)
(* continent is missing or, with a row missing, when the present values    *)
(* sum to 0.                                                               *)
(***************************************************************************)
C20_AvgTimesCountWhenCompleteOrZero ==
    ContinentSummaryReturned =>
        LET R == ContinentRows(call.continent)
            P == ContinentRowsWithValue(call.continent, call.year)
            sum == SumOfRows(P, call.year)
        IN  /\ ret.total_gdp = F(sum)
            /\ ret.country_count = Cardinality(R)
            /\ P # {} => ret.avg_gdp.num * Cardinality(P) = sum * ret.avg_gdp.den
            /\ P = {} => ret.avg_gdp = NaN
            /\ (/\ ret.avg_gdp # NaN
                /\ ret.avg_gdp.num * ret.country_count
                      = ret.total_gdp.num * ret.avg_gdp.den)
                  <=> (P = R \/ (P # {} /\ sum = 0))

C20_Witness ==
    /\ ContinentSummaryReturned
    /\ Cardinality(ContinentRows(call.continent)) = 2
    /\ Cardinality(ContinentRowsWithValue(call.continent, call.year)) = 1
    /\ ret.total_gdp = F(1)
    /\ ret.avg_gdp = F(1)
    /\ ret.country_count = 2

(***************************************************************************)
(* The sums, stated from the dataset and the lists handed in.              *)
(***************************************************************************)
\* the value stored under key in a dict
Lookup(d, key) == d[CHOOSE k \in 1..Len(d) : d[k][1] = key][2]

Keys(d) == {d[k][1] : k \in 1..Len(d)}

\* the sum of the present cells of the rows S over the listed years (cells are whole)
RECURSIVE SumPresent(_, _)
SumPresent(S, years) ==
    IF years = <<>> THEN 0
    ELSE LET year == years[Len(years)]
         IN  SumPresent(S, SubSeq(years, 1, Len(years) - 1))
                 + SumOfRows({i \in S : df[i].gdp[year] # NaN}, year)

\* no cell of the dataset is missing for the listed years
SliceComplete(years) ==
    \A i \in 1..Len(df), k \in 1..Len(years) : df[i].gdp[years[k]] # NaN

(***************************************************************************)
(* C21.  get_year_comparison_data(years, regions) holds, for every listed  *)
(* year and every listed region, exactly one entry: the sum of the present *)
(* values of the region's rows for that year, 0 for a region with no row;  *)
(* listing the years and the regions in the opposite order stores the same *)
(* value for every pair.                                                   *)
(***************************************************************************)
C21_YearComparisonSums ==
    call.op = "get_year_comparison_data" =>
        LET swapped == get_year_comparison_data(Reversed(call.comparison_years),
                                                Reversed(call.continents))
        IN  /\ Keys(ret) = Elements(call.comparison_years)
            /\ Len(ret) = Cardinality(Keys(ret))
            /\ \A y \in Keys(ret) :
                /\ Keys(Lookup(ret, y)) = Elements(call.continents)
                /\ Len(Lookup(ret, y)) = Cardinality(Elements(call.continents))
                /\ \A c \in Elements(call.continents) :
                    /\ Lookup(Lookup(ret, y), c)
                         = F(SumOfRows(ContinentRowsWithValue(c, y), y))
                    /\ ContinentRows(c) = {} => Lookup(Lookup(ret, y), c) = F(0)
                    /\ Lookup(Lookup(ret, y), c) = Lookup(Lookup(swapped, y), c)

C21_Witness ==
    /\ call.op = "get_year_comparison_data"
    /\ Len(call.comparison_years) = 2
    /\ call.continents = <<"Europe", "Asia">>
    /\ \E y \in Keys(ret) :
        /\ Lookup(Lookup(ret, y), "Asia") = F(2)
        /\ Lookup(Lookup(ret, y), "Europe") = F(1)
        /\ \E i \in ContinentRows("Asia") : df[i].gdp[y] = NaN

(***************************************************************************)
(* C22.  When no cell of the rows is missing for the listed years, the sum *)
(* over the years of calculate_total_gdp equals the sum over the rows of   *)
(* calculate_average_gdp times the number of years.  Both sums are taken   *)
(* as pandas takes them (an undefined mean, which only an empty year list  *)
(* gives here, adds nothing).                                              *)
(***************************************************************************)
C22_TotalIsAverageTimesYears ==
    (call.op \in {"calculate_total_gdp", "calculate_average_gdp"}
         /\ SliceComplete(call.years)) =>
        LET total == IF call.op = "calculate_total_gdp" THEN ret
                     ELSE calculate_total_gdp(df, call.years)
            average == IF call.op = "calculate_average_gdp" THEN ret
                       ELSE calculate_average_gdp(df, call.years)
        IN  PdSum(total) = RatMul(PdSum(average), F(Len(call.years)))

C22_Witness ==
    /\ call.op = "calculate_average_gdp"
    /\ SliceComplete(call.years)
    /\ Len(df) = 3
    /\ call.years = <<2001, 2000>>
    /\ ret = <<RatDiv(F(3), F(2)), RatDiv(F(3), F(2)), RatDiv(F(3), F(2))>>

\* with a missing cell in the slice the two quantities of C22 differ
C22_DiffersWithMissingCell ==
    /\ call.op = "calculate_total_gdp"
    /\ ~SliceComplete(call.years)
    /\ PdSum(ret) # RatMul(PdSum(calculate_average_gdp(df, call.years)),
                           F(Len(call.years)))

(***************************************************************************)
(* C23.  calculate_country_sum and calculate_regional_sum return the sum   *)
(* of the present cells of the country's (the region's) rows over the      *)
(* listed years: a missing cell adds nothing and never makes the result    *)
(* missing.                                                                *)
(***************************************************************************)
C23_SumReducersSkipMissingCells ==
    /\ call.op = "calculate_regional_sum" =>
          ret = F(SumPresent(ContinentRows(call.region), call.year_columns))
    /\ call.op = "calculate_country_sum" =>
          ret = F(SumPresent({i \in 1..Len(df) : df[i].name = call.country},
                             call.year_columns))

(***************************************************************************)
(* C29.  For every series and every year list of the same length, the loop *)
(* of the legacy dashboard and calculate_growth_rates of the processor     *)
(* return the same rates and the same years.                               *)
(***************************************************************************)
C29_LegacyGrowthRatesAgree ==
    /\ call.op = "_calculate_growth_rates" =>
          ret = calculate_growth_rates(in_values, in_years)
    /\ call.op = "calculate_growth_rates" =>
          ret = _calculate_growth_rates(in_values, in_years)

C29_Witness ==
    /\ call.op = "_calculate_growth_rates"
    /\ Len(in_values) = 3
    /\ in_values[1] = F(0)
    /\ in_values[2] # NaN
    /\ Len(ret.growth_rates) = 1
    /\ ret.growth_years = <<in_years[3]>>
    /\ in_years[3] # in_years[2]

(***************************************************************************)
(* C30.  get_year_range returns exactly the dataset years between the      *)
(* smaller and the larger of the two selected years, in the ascending      *)
(* order of year_columns; with the two selections swapped it returns the   *)
(* same list; the list is empty when no dataset year lies in between.      *)
(***************************************************************************)
C30_YearRangeSymmetric ==
    call.op = "get_year_range" =>
        LET a == int(start_year_var)
            b == int(end_year_var)
            lo == IF a < b THEN a ELSE b
            hi == IF a < b THEN b ELSE a
        IN  /\ ret = InRowOrder({y \in Elements(year_columns) : lo <= y /\ y <= hi})
            /\ ret = YearRange(end_year_var, start_year_var)

C30_Witness ==
    /\ call.op = "get_year_range"
    /\ int(start_year_var) > int(end_year_var)
    /\ Len(ret) = 2
    /\ Len(year_columns) = 3

\* get_year_range returned the empty list: no dataset year lies in the interval
C30_EmptyWitness ==
    /\ call.op = "get_year_range"
    /\ ret = <<>>
    /\ int(start_year_var) < int(end_year_var)

(***************************************************************************)
(* The loader, stated from the table in the data file.                     *)
(***************************************************************************)
IsRaise(r) == r # LoaderSelf /\ r # None /\ "exception" \in DOMAIN r

\* the table has every required column and at least one integer-named column
HasRequiredAndYearColumns(table, required_columns) ==
    /\ \A col \in Elements(required_columns) : col \in table.columns
    /\ \E col \in table.columns : IsInt(col)

(***************************************************************************)
(* C25.  load_data raises, and does not complete, whenever the table       *)
(* loaded is empty, lacks a required column or has no integer-named        *)
(* column; it completes only for a table with every required column and    *)
(* at least one integer-named column.                                      *)
(***************************************************************************)
C25_LoadDataFailsOnInvalidTable ==
    call.op = "load_data" =>
        /\ ret = LoaderSelf \/ IsRaise(ret)
        /\ (/\ file_table \in FileTables
            /\ \/ Empty(file_table)
               \/ ~HasRequiredAndYearColumns(file_table, loader.required_columns))
              => IsRaise(ret)
        /\ ret = LoaderSelf =>
              /\ file_table \in FileTables
              /\ ~Empty(file_table)
              /\ HasRequiredAndYearColumns(file_table, loader.required_columns)

C25_Witness ==
    /\ call.op = "load_data"
    /\ ret = LoaderSelf
    /\ loader.df = file_table
    /\ Text("2000") \in file_table.columns
    /\ loader.year_columns = <<YearColumns[1]>>
    /\ loader.countries = <<CountryNames[1]>>

\* load_data raised for a table with the required columns whose only year column is a text
C25_FailureWitness ==
    /\ call.op = "load_data"
    /\ ret = Raise("ValueError")
    /\ file_table \in FileTables
    /\ file_table.columns = {Text("Country Name"), Text("Continent"), Text("2000")}
    /\ file_table.rows # <<>>

(***************************************************************************)
(* C28.  get_dataframe returns a dataframe only if an earlier load_data    *)
(* call completed, and raises otherwise, also after a load_data call that  *)
(* failed validation.                                                      *)
(***************************************************************************)
C28_OnlyValidatedDataExposed ==
    call.op = "get_dataframe" =>
        /\ ~IsRaise(ret) => "load_data completed" \in log
        /\ "load_data completed" \notin log => ret = Raise("ValueError")

(***************************************************************************)
(* The dispatcher and the debounce of the dashboard.                       *)
(***************************************************************************)
\* C26: perform_analysis maps the selected analysis name to exactly one
\* operation: for a name of the mapping it invokes that operation once and no
\* other, for any other name it invokes nothing, and an exception raised by
\* the invoked operation is caught and shown, never propagated to the caller.
C26_DispatchesExactlyOne ==
    call.op = "perform_analysis" =>
        /\ call.analysis \in Keys(analysis_map) =>
               ret.invoked = <<Lookup(analysis_map, call.analysis)>>
        /\ call.analysis \notin Keys(analysis_map) => ret.invoked = <<>>
        /\ ret.propagated = None
        /\ (ret.invoked # <<>> /\ call.outcome # None) =>
               ret.showerror = <<call.outcome.exception>>
        /\ (ret.invoked = <<>> \/ call.outcome = None) => ret.showerror = <<>>

\* the correlation analysis was dispatched, raised KeyError, and it was shown
C26_Witness ==
    /\ call.op = "perform_analysis"
    /\ call.analysis = "correlation"
    /\ call.outcome = Raise("KeyError")
    /\ ret.invoked = <<"plot_correlation">>
    /\ ret.showerror = <<"KeyError">>

\* a configured name without an operation was dispatched: nothing ran
C26_UnknownNameWitness ==
    /\ call.op = "perform_analysis"
    /\ call.analysis = "forecast"
    /\ ret.invoked = <<>>

\* the perform_analysis timers that are scheduled and have not run
PendingAnalysisTimers == {t \in timers : t.callback = "perform_analysis"}

\* C27: in every reachable state at most one scheduled perform_analysis timer
\* is pending; while a burst of k >= 1 selection events has not been answered
\* the pending timer is the one its last event scheduled, no timer is left
\* once it has run (so no run happens without an event before it), and every
\* burst is answered by that run.
C27_Debounce ==
    /\ [](/\ Cardinality(PendingAnalysisTimers) <= 1
          /\ log.burst >= 1 =>
                 PendingAnalysisTimers =
                     {[id |-> update_timer, callback |-> "perform_analysis"]}
          /\ log.burst = 0 => PendingAnalysisTimers = {}
          /\ 0 \notin log.runs)
    /\ (log.burst >= 1) ~> (log.burst = 0)

\* a burst of two selection events has been answered by the run of its timer
C27_Witness ==
    /\ call.op = "perform_analysis"
    /\ call.origin = "timer"
    /\ 2 \in log.runs
    /\ log.burst = 0
    /\ PendingAnalysisTimers = {}

\* two events of a burst have passed and one timer is pending
C27_BurstWitness ==
    /\ log.burst = 2
    /\ Cardinality(PendingAnalysisTimers) = 1

(***************************************************************************)
(* The processor only reads.                                               *)
(***************************************************************************)
\* C24: every GDPDataProcessor operation is a pure read: whatever sequence of
\* get_country_data, calculate_growth_rates, get_top_countries,
\* get_correlation_matrix, calculate_statistics, calculate_growth_summary,
\* get_continent_summary, get_world_statistics, get_year_comparison_data and
\* get_top_correlations is called, each call leaves the dataset's rows, cells
\* and year list and the caller's input sequences as they were.
C24_OperationsArePureReads ==
    [][/\ df' = df
       /\ year_columns' = year_columns
       /\ in_values' = in_values
       /\ in_years' = in_years
       /\ in_countries' = in_countries
       /\ in_regions' = in_regions]_vars

\* two calls in a row have returned on a dataset with a missing cell: a
\* correlation matrix of known countries, then its top correlations
C24_Witness ==
    /\ call.op = "get_top_correlations"
    /\ call.correlation_matrix # None
    /\ in_countries = <<"B", "A", "C">>
    /\ Len(df) = 3
    /\ \E i \in 1..Len(df) : \E y \in YearColumnSet : df[i].gdp[y] = NaN

\* get_country_data has returned the series of a country that has a missing cell
C24_CountryWitness ==
    /\ call.op = "get_country_data"
    /\ ret # None
    /\ NaN \in Elements(ret)

====
